---- MODULE Spec2Model ----
(***************************************************************************)
(* A model of the Fathom elaboration and evaluation engine:                *)
(*   - the normalisation-by-evaluation semantics (core/semantics.rs):      *)
(*     eval, the eliminations, force, format_repr, quote and is_equal;     *)
(*   - the environments (env.rs);                                          *)
(*   - the elaboration session (surface/elaboration.rs): metavariables,    *)
(*     the message buffer, handle_messages, and match elaboration.         *)
(***************************************************************************)
EXTENDS Integers, Sequences, FiniteSets, TLC

(***************************************************************************)
(* Options, as Rust's Option<T>.                                           *)
(***************************************************************************)
None == [tag |-> "None"]
Some(x) == [tag |-> "Some", val |-> x]

(***************************************************************************)
(* Constants (ConstLit).  A constant carries its type tag, its numeric     *)
(* value and, for unsigned integers, a display style.                      *)
(***************************************************************************)
ConstBool(b) == [ty |-> "Bool", n |-> IF b THEN 1 ELSE 0, style |-> "NoStyle"]
ConstU8(n, style) == [ty |-> "U8", n |-> n, style |-> style]
ConstS8(n) == [ty |-> "S8", n |-> n, style |-> "NoStyle"]
ConstU16(n, style) == [ty |-> "U16", n |-> n, style |-> style]
ConstS16(n) == [ty |-> "S16", n |-> n, style |-> "NoStyle"]
ConstS32(n) == [ty |-> "S32", n |-> n, style |-> "NoStyle"]
ConstU32(n, style) == [ty |-> "U32", n |-> n, style |-> style]
\* A u64 is kept as its 16-bit words, most significant first.
ConstU64(words, style) == [ty |-> "U64", n |-> words, style |-> style]
\* A stream position is a u64, kept as its 16-bit words, most significant
\* first.
ConstPos(words) == [ty |-> "Pos", n |-> words, style |-> "NoStyle"]

\* Equality of constants compares the numeric value, never the display style.
ConstEq(a, b) == a.ty = b.ty /\ a.n = b.n

\* Ordering of constants: numeric, within one type.  -1, 0 or 1 as Ordering.
ConstCmp(a, b) == IF a.n < b.n THEN -1 ELSE IF a.n = b.n THEN 0 ELSE 1

\* UIntStyle::merge: two equal styles give that style, otherwise Decimal.
UIntStyleMerge(a, b) == IF a = b THEN a ELSE "Decimal"

\* The width of U8 arithmetic.
U8Bits == 8
U8Max == 2 ^ U8Bits - 1
S8Min == -(2 ^ (U8Bits - 1))
S8Max == 2 ^ (U8Bits - 1) - 1

\* The width of U16 and S16 arithmetic.
U16Bits == 16
U16Max == 2 ^ U16Bits - 1
S16Min == -(2 ^ (U16Bits - 1))
S16Max == 2 ^ (U16Bits - 1) - 1

\* The width of a stream position, and the number of 16-bit words in it.
PosBits == 64
PosWords == PosBits \div U16Bits

(***************************************************************************)
(* Terms (the syntactic IR); names, spans and type annotations that        *)
(* evaluation ignores are left out.                                        *)
(***************************************************************************)
TermRigidVar(i) == [tag |-> "RigidVar", ix |-> i]
TermFlexibleVar(m) == [tag |-> "FlexibleVar", lv |-> m]
TermFlexibleInsertion(m, infos) == [tag |-> "FlexibleInsertion", lv |-> m, infos |-> infos]
TermAnn(e, t) == [tag |-> "Ann", expr |-> e, type |-> t]
TermLet(d, b) == [tag |-> "Let", def |-> d, body |-> b]
TermUniverse == [tag |-> "Universe"]
TermFunTypeOf(plicity, i, o) ==
    [tag |-> "FunType", plicity |-> plicity, input |-> i, output |-> o]
TermFunLitOf(plicity, b) == [tag |-> "FunLit", plicity |-> plicity, body |-> b]
TermFunType(i, o) == TermFunTypeOf("Explicit", i, o)
TermFunLit(b) == TermFunLitOf("Explicit", b)
TermFunApp(h, a) == [tag |-> "FunApp", head |-> h, arg |-> a]
TermRecordType(ls, ts) == [tag |-> "RecordType", labels |-> ls, terms |-> ts]
TermRecordLit(ls, es) == [tag |-> "RecordLit", labels |-> ls, terms |-> es]
TermRecordProj(h, l) == [tag |-> "RecordProj", head |-> h, label |-> l]
TermArrayLit(es) == [tag |-> "ArrayLit", terms |-> es]
TermFormatRecord(ls, fs) == [tag |-> "FormatRecord", labels |-> ls, terms |-> fs]
TermFormatOverlap(ls, fs) == [tag |-> "FormatOverlap", labels |-> ls, terms |-> fs]
TermPrim(p) == [tag |-> "Prim", prim |-> p]
TermConstLit(c) == [tag |-> "ConstLit", const |-> c]
TermConstMatch(h, bs, d) == [tag |-> "ConstMatch", head |-> h, branches |-> bs, default |-> d]

(***************************************************************************)
(* Values (weak head normal forms), heads, eliminations, closures,         *)
(* telescopes and branches.                                                *)
(***************************************************************************)
HeadPrim(p) == [k |-> "Prim", prim |-> p]
HeadRigidVar(l) == [k |-> "RigidVar", lv |-> l]
HeadFlexibleVar(l) == [k |-> "FlexibleVar", lv |-> l]

ElimFunApp(v) == [e |-> "FunApp", arg |-> v]
ElimRecordProj(l) == [e |-> "RecordProj", label |-> l]
ElimConstMatch(bs) == [e |-> "ConstMatch", branches |-> bs]

Closure(env, term) == [rigid_exprs |-> env, term |-> term]
Telescope(env, terms) == [rigid_exprs |-> env, apply_repr |-> FALSE, terms |-> terms]
Branches(env, bs, d) == [rigid_exprs |-> env, pattern_branches |-> bs, default_expr |-> d]

ValueStuck(h, sp) == [tag |-> "Stuck", head |-> h, spine |-> sp]
ValueUniverse == [tag |-> "Universe"]
ValueFunTypeOf(plicity, i, c) ==
    [tag |-> "FunType", plicity |-> plicity, input |-> i, closure |-> c]
ValueFunLitOf(plicity, c) == [tag |-> "FunLit", plicity |-> plicity, closure |-> c]
ValueFunType(i, c) == ValueFunTypeOf("Explicit", i, c)
ValueFunLit(c) == ValueFunLitOf("Explicit", c)
ValueRecordType(ls, t) == [tag |-> "RecordType", labels |-> ls, telescope |-> t]
ValueRecordLit(ls, vs) == [tag |-> "RecordLit", labels |-> ls, exprs |-> vs]
ValueArrayLit(vs) == [tag |-> "ArrayLit", exprs |-> vs]
ValueFormatRecord(ls, t) == [tag |-> "FormatRecord", labels |-> ls, telescope |-> t]
ValueFormatOverlap(ls, t) == [tag |-> "FormatOverlap", labels |-> ls, telescope |-> t]
ValueConstLit(c) == [tag |-> "ConstLit", const |-> c]

\* Value::prim: a primitive applied to inputs.
ValuePrim(p, inputs) == ValueStuck(HeadPrim(p), [i \in 1..Len(inputs) |-> ElimFunApp(inputs[i])])
ValueRigidVar(l) == ValueStuck(HeadRigidVar(l), <<>>)
ValueFlexibleVar(l) == ValueStuck(HeadFlexibleVar(l), <<>>)

\* panic_any(Error::...): the computation is abandoned with this error.
Panic(err) == [tag |-> "Panic", err |-> err]

\* A telescope that keeps its terms as they are.
TelescopeKeepTerms(t) == t

\* Telescope::apply_repr.
TelescopeApplyRepr(t) == [t EXCEPT !.apply_repr = TRUE]

(***************************************************************************)
(* Environments (env.rs).  Levels (GlobalVar) count from 0 at the oldest   *)
(* entry, indices (LocalVar) from 0 at the newest.                         *)
(***************************************************************************)
\* A conversion that counts the indices from 1 at the newest entry.
local_to_global_from_one(len, local) ==
    IF len - local >= 0 THEN Some(len - local) ELSE None

\* EnvLen::local_to_global: len - local - 1, None when that is negative.
local_to_global(len, local) ==
    IF len - local >= 1 THEN Some(len - local - 1) ELSE None

\* EnvLen::global_to_local.
global_to_local(len, global) ==
    IF len - global >= 1 THEN Some(len - global - 1) ELSE None

\* SliceEnv::get_global / SharedEnv::get_global.
get_global(entries, global) ==
    IF global >= 0 /\ global < Len(entries) THEN Some(entries[global + 1]) ELSE None

\* SliceEnv::get_local / SharedEnv::get_local.
get_local(entries, local) ==
    LET g == local_to_global(Len(entries), local)
    IN  IF g.tag = "Some" THEN get_global(entries, g.val) ELSE None

RECURSIVE Sem(_, _)

(***************************************************************************)
(* The semantics: evaluation and the eliminations (core/semantics.rs).     *)
(* rigid_exprs is the local expression environment, flexible_exprs the     *)
(* metavariable solutions (a sequence of Option<value>).                   *)
(***************************************************************************)

\* The nullary format primitives and their representation types.
ScalarFormatRepr ==
    [FormatU8 |-> "U8Type", FormatU16Be |-> "U16Type", FormatU16Le |-> "U16Type",
     FormatU32Be |-> "U32Type", FormatU32Le |-> "U32Type",
     FormatU64Be |-> "U64Type", FormatU64Le |-> "U64Type",
     FormatS8 |-> "S8Type", FormatS16Be |-> "S16Type", FormatS16Le |-> "S16Type",
     FormatS32Be |-> "S32Type", FormatS32Le |-> "S32Type",
     FormatS64Be |-> "S64Type", FormatS64Le |-> "S64Type",
     FormatF32Be |-> "F32Type", FormatF32Le |-> "F32Type",
     FormatF64Be |-> "F64Type", FormatF64Le |-> "F64Type",
     FormatStreamPos |-> "PosType", FormatFail |-> "VoidType",
     ReportedError |-> "ReportedError"]

\* The array format primitives and their representation types.
ArrayFormatRepr ==
    [FormatArray8 |-> "Array8Type", FormatArray16 |-> "Array16Type",
     FormatArray32 |-> "Array32Type", FormatArray64 |-> "Array64Type"]

IsConstOf(v, ty) == v.tag = "ConstLit" /\ v.const.ty = ty

\* The wrapping sum, which is never None.
u8_wrapping_add(x, y) == Some((x + y) % (U8Max + 1))

\* checked_add, checked_sub, checked_mul and checked_div on u8: None when the
\* exact result does not fit the width or the divisor is zero.
u8_checked_add(x, y) == IF x + y <= U8Max THEN Some(x + y) ELSE None
u8_checked_sub(x, y) == IF x - y >= 0 THEN Some(x - y) ELSE None
u8_checked_mul(x, y) == IF x * y <= U8Max THEN Some(x * y) ELSE None
u8_checked_div(x, y) == IF y # 0 THEN Some(x \div y) ELSE None

\* Integer division as Rust's `/`: the quotient rounded towards zero.
TruncDiv(x, y) ==
    IF (x >= 0) = (y > 0) THEN (IF x >= 0 THEN x ELSE -x) \div (IF y > 0 THEN y ELSE -y)
    ELSE -((IF x >= 0 THEN x ELSE -x) \div (IF y > 0 THEN y ELSE -y))

u16_checked_add(x, y) == IF x + y <= U16Max THEN Some(x + y) ELSE None
u16_checked_sub(x, y) == IF x - y >= 0 THEN Some(x - y) ELSE None
u16_checked_mul(x, y) == IF y = 0 \/ x <= U16Max \div y THEN Some(x * y) ELSE None
u16_checked_div(x, y) == IF y # 0 THEN Some(x \div y) ELSE None

i8_checked_neg(x) == IF -x <= S8Max THEN Some(-x) ELSE None
i8_checked_add(x, y) == IF S8Min <= x + y /\ x + y <= S8Max THEN Some(x + y) ELSE None
i8_checked_sub(x, y) == IF S8Min <= x - y /\ x - y <= S8Max THEN Some(x - y) ELSE None
i8_checked_mul(x, y) == IF S8Min <= x * y /\ x * y <= S8Max THEN Some(x * y) ELSE None
i8_checked_div(x, y) ==
    IF y = 0 \/ (x = S8Min /\ y = -1) THEN None ELSE Some(TruncDiv(x, y))

i16_checked_neg(x) == IF -x <= S16Max THEN Some(-x) ELSE None
i16_checked_add(x, y) == IF S16Min <= x + y /\ x + y <= S16Max THEN Some(x + y) ELSE None
i16_checked_sub(x, y) == IF S16Min <= x - y /\ x - y <= S16Max THEN Some(x - y) ELSE None
i16_checked_mul(x, y) == IF S16Min <= x * y /\ x * y <= S16Max THEN Some(x * y) ELSE None
i16_checked_div(x, y) ==
    IF y = 0 \/ (x = S16Min /\ y = -1) THEN None ELSE Some(TruncDiv(x, y))

\* u64::from of an unsigned integer of at most 16 bits.
u64_from(n) == [i \in 1..PosWords |-> IF i = PosWords THEN n ELSE 0]

\* The sum of the words i, i - 1, .., 1 of two u64 and a carry into word i.
RECURSIVE u64_add_words(_, _, _, _)
u64_add_words(x, y, i, carry) ==
    IF i = 0 THEN [words |-> <<>>, carry |-> carry]
    ELSE LET t == x[i] + y[i] + carry
             rest == u64_add_words(x, y, i - 1, t \div (U16Max + 1))
         IN  [words |-> Append(rest.words, t % (U16Max + 1)), carry |-> rest.carry]

u64_checked_add(x, y) ==
    LET r == u64_add_words(x, y, PosWords, 0)
    IN  IF r.carry = 0 THEN Some(r.words) ELSE None

\* const_step! for a binary u16 operation that merges the display styles.
u16_const_step(spine, r) ==
    IF r.tag = "Some"
    THEN Some(ValueConstLit(ConstU16(r.val,
              UIntStyleMerge(spine[1].arg.const.style, spine[2].arg.const.style))))
    ELSE None

\* const_step! for an operation whose result has no display style.
plain_const_step(ty, r) ==
    IF r.tag = "Some"
    THEN Some(ValueConstLit([ty |-> ty, n |-> r.val, style |-> "NoStyle"]))
    ELSE None

\* const_step! for a binary u8 operation that merges the display styles.
u8_const_step(spine, r) ==
    IF r.tag = "Some"
    THEN Some(ValueConstLit(ConstU8(r.val,
              UIntStyleMerge(spine[1].arg.const.style, spine[2].arg.const.style))))
    ELSE None

\* step!/const_step!: the spine must be exactly the expected applications.
IsFunAppSpine(spine, n) ==
    Len(spine) = n /\ \A i \in 1..n : spine[i].e = "FunApp"

IsConstSpine(spine, tys) ==
    /\ IsFunAppSpine(spine, Len(tys))
    /\ \A i \in 1..Len(tys) : IsConstOf(spine[i].arg, tys[i])

\* prim_step(prim) applied to a spine: Some(value) when the primitive
\* reduces, None when it has no step or the step does not apply.
prim_step(flexible_exprs, prim, spine) ==
    CASE prim = "FormatRepr" ->
            IF IsFunAppSpine(spine, 1)
            THEN Some(Sem("format_repr", <<flexible_exprs, spine[1].arg>>))
            ELSE None
      [] prim = "BoolNot" ->
            IF IsConstSpine(spine, <<"Bool">>)
            THEN Some(ValueConstLit(ConstBool(spine[1].arg.const.n = 0)))
            ELSE None
      [] prim = "U8Not" ->
            IF IsConstSpine(spine, <<"U8">>)
            THEN Some(ValueConstLit(ConstU8(U8Max - spine[1].arg.const.n,
                                            spine[1].arg.const.style)))
            ELSE None
      [] prim = "U8Add" ->
            IF IsConstSpine(spine, <<"U8", "U8">>)
            THEN u8_const_step(spine, u8_checked_add(spine[1].arg.const.n, spine[2].arg.const.n))
            ELSE None
      [] prim = "U8Sub" ->
            IF IsConstSpine(spine, <<"U8", "U8">>)
            THEN u8_const_step(spine, u8_checked_sub(spine[1].arg.const.n, spine[2].arg.const.n))
            ELSE None
      [] prim = "U8Mul" ->
            IF IsConstSpine(spine, <<"U8", "U8">>)
            THEN u8_const_step(spine, u8_checked_mul(spine[1].arg.const.n, spine[2].arg.const.n))
            ELSE None
      [] prim = "U8Div" ->
            IF IsConstSpine(spine, <<"U8", "U8">>)
            THEN u8_const_step(spine, u8_checked_div(spine[1].arg.const.n, spine[2].arg.const.n))
            ELSE None
      [] prim = "U16Add" ->
            IF IsConstSpine(spine, <<"U16", "U16">>)
            THEN u16_const_step(spine, u16_checked_add(spine[1].arg.const.n, spine[2].arg.const.n))
            ELSE None
      [] prim = "U16Sub" ->
            IF IsConstSpine(spine, <<"U16", "U16">>)
            THEN u16_const_step(spine, u16_checked_sub(spine[1].arg.const.n, spine[2].arg.const.n))
            ELSE None
      [] prim = "U16Mul" ->
            IF IsConstSpine(spine, <<"U16", "U16">>)
            THEN u16_const_step(spine, u16_checked_mul(spine[1].arg.const.n, spine[2].arg.const.n))
            ELSE None
      [] prim = "U16Div" ->
            IF IsConstSpine(spine, <<"U16", "U16">>)
            THEN u16_const_step(spine, u16_checked_div(spine[1].arg.const.n, spine[2].arg.const.n))
            ELSE None
      [] prim = "S8Neg" ->
            IF IsConstSpine(spine, <<"S8">>)
            THEN plain_const_step("S8", i8_checked_neg(spine[1].arg.const.n))
            ELSE None
      [] prim = "S8Add" ->
            IF IsConstSpine(spine, <<"S8", "S8">>)
            THEN plain_const_step("S8",
                     i8_checked_add(spine[1].arg.const.n, spine[2].arg.const.n))
            ELSE None
      [] prim = "S8Sub" ->
            IF IsConstSpine(spine, <<"S8", "S8">>)
            THEN plain_const_step("S8",
                     i8_checked_sub(spine[1].arg.const.n, spine[2].arg.const.n))
            ELSE None
      [] prim = "S8Mul" ->
            IF IsConstSpine(spine, <<"S8", "S8">>)
            THEN plain_const_step("S8",
                     i8_checked_mul(spine[1].arg.const.n, spine[2].arg.const.n))
            ELSE None
      [] prim = "S8Div" ->
            IF IsConstSpine(spine, <<"S8", "S8">>)
            THEN plain_const_step("S8",
                     i8_checked_div(spine[1].arg.const.n, spine[2].arg.const.n))
            ELSE None
      [] prim = "S16Neg" ->
            IF IsConstSpine(spine, <<"S16">>)
            THEN plain_const_step("S16", i16_checked_neg(spine[1].arg.const.n))
            ELSE None
      [] prim = "S16Add" ->
            IF IsConstSpine(spine, <<"S16", "S16">>)
            THEN plain_const_step("S16",
                     i16_checked_add(spine[1].arg.const.n, spine[2].arg.const.n))
            ELSE None
      [] prim = "S16Sub" ->
            IF IsConstSpine(spine, <<"S16", "S16">>)
            THEN plain_const_step("S16",
                     i16_checked_sub(spine[1].arg.const.n, spine[2].arg.const.n))
            ELSE None
      [] prim = "S16Mul" ->
            IF IsConstSpine(spine, <<"S16", "S16">>)
            THEN plain_const_step("S16",
                     i16_checked_mul(spine[1].arg.const.n, spine[2].arg.const.n))
            ELSE None
      [] prim = "S16Div" ->
            IF IsConstSpine(spine, <<"S16", "S16">>)
            THEN plain_const_step("S16",
                     i16_checked_div(spine[1].arg.const.n, spine[2].arg.const.n))
            ELSE None
      [] prim = "PosAddU8" ->
            IF IsConstSpine(spine, <<"Pos", "U8">>)
            THEN plain_const_step("Pos",
                     u64_checked_add(spine[1].arg.const.n, u64_from(spine[2].arg.const.n)))
            ELSE None
      [] prim = "PosAddU16" ->
            IF IsConstSpine(spine, <<"Pos", "U16">>)
            THEN plain_const_step("Pos",
                     u64_checked_add(spine[1].arg.const.n, u64_from(spine[2].arg.const.n)))
            ELSE None
      [] OTHER -> None

\* ElimContext::apply_closure.
apply_closure(flexible_exprs, closure, value) ==
    Sem("eval", <<Append(closure.rigid_exprs, value), flexible_exprs, closure.term>>)

\* ElimContext::fun_app.
fun_app(flexible_exprs, head_expr, input_expr) ==
    CASE head_expr.tag = "FunLit" ->
            Sem("apply_closure", <<flexible_exprs, head_expr.closure, input_expr>>)
      [] head_expr.tag = "Stuck" ->
            LET spine == Append(head_expr.spine, ElimFunApp(input_expr))
                stuck == ValueStuck(head_expr.head, spine)
            IN  IF head_expr.head.k = "Prim"
                THEN LET r == Sem("prim_step", <<flexible_exprs, head_expr.head.prim, spine>>)
                     IN  IF r.tag = "Some" THEN r.val ELSE stuck
                ELSE stuck
      [] OTHER -> Panic("InvalidFunctionApp")

\* The position of a label in a list of labels, 0 when it is absent.
LabelPosition(labels, label) ==
    IF \E i \in 1..Len(labels) : labels[i] = label
    THEN CHOOSE i \in 1..Len(labels) :
            labels[i] = label /\ \A j \in 1..(i - 1) : labels[j] # label
    ELSE 0

\* A projection that reads the first field of a record literal whatever the
\* label.
record_proj_first(flexible_exprs, head_expr, label) ==
    CASE head_expr.tag = "RecordLit" ->
            IF Len(head_expr.exprs) >= 1 THEN head_expr.exprs[1] ELSE Panic("InvalidRecordProj")
      [] head_expr.tag = "Stuck" ->
            ValueStuck(head_expr.head, Append(head_expr.spine, ElimRecordProj(label)))
      [] OTHER -> Panic("InvalidRecordProj")

\* ElimContext::record_proj.
record_proj(flexible_exprs, head_expr, label) ==
    CASE head_expr.tag = "RecordLit" ->
            LET i == LabelPosition(head_expr.labels, label)
            IN  IF i >= 1 /\ i <= Len(head_expr.exprs)
                THEN head_expr.exprs[i]
                ELSE Panic("InvalidRecordProj")
      [] head_expr.tag = "Stuck" ->
            ValueStuck(head_expr.head, Append(head_expr.spine, ElimRecordProj(label)))
      [] OTHER -> Panic("InvalidRecordProj")

\* The branch loop of const_match: the first branch on an equal constant,
\* otherwise the default applied to the scrutinee.
const_match_branches(flexible_exprs, head_expr, branches, i) ==
    IF i > Len(branches.pattern_branches)
    THEN IF branches.default_expr.tag = "Some"
         THEN Sem("eval", <<Append(branches.rigid_exprs, head_expr), flexible_exprs,
                   branches.default_expr.val>>)
         ELSE Panic("MissingConstDefault")
    ELSE IF ConstEq(head_expr.const, branches.pattern_branches[i][1])
         THEN Sem("eval", <<branches.rigid_exprs, flexible_exprs, branches.pattern_branches[i][2]>>)
         ELSE Sem("const_match_branches", <<flexible_exprs, head_expr, branches, i + 1>>)

\* ElimContext::const_match.
const_match(flexible_exprs, head_expr, branches) ==
    CASE head_expr.tag = "ConstLit" ->
            Sem("const_match_branches", <<flexible_exprs, head_expr, branches, 1>>)
      [] head_expr.tag = "Stuck" ->
            ValueStuck(head_expr.head, Append(head_expr.spine, ElimConstMatch(branches)))
      [] OTHER -> Panic("InvalidConstMatch")

\* ElimContext::format_repr.
format_repr(flexible_exprs, format) ==
    CASE format.tag \in {"FormatRecord", "FormatOverlap"} ->
            ValueRecordType(format.labels, TelescopeApplyRepr(format.telescope))
      [] format.tag = "Stuck" ->
            LET prim == format.head.prim
                spine == format.spine
                stuck == ValuePrim("FormatRepr", <<format>>)
            IN  IF format.head.k # "Prim" THEN stuck
                ELSE CASE prim \in DOMAIN ScalarFormatRepr /\ spine = <<>> ->
                            ValuePrim(ScalarFormatRepr[prim], <<>>)
                       [] prim \in DOMAIN ArrayFormatRepr /\ IsFunAppSpine(spine, 2) ->
                            ValuePrim(ArrayFormatRepr[prim],
                                <<spine[1].arg, Sem("format_repr", <<flexible_exprs, spine[2].arg>>)>>)
                       [] prim = "FormatLink" /\ IsFunAppSpine(spine, 2) ->
                            ValuePrim("RefType", <<spine[2].arg>>)
                       [] prim = "FormatDeref" /\ IsFunAppSpine(spine, 2) ->
                            Sem("format_repr", <<flexible_exprs, spine[1].arg>>)
                       [] prim \in {"FormatSucceed", "FormatUnwrap"}
                            /\ Len(spine) = 2 /\ spine[1].e = "FunApp" ->
                            spine[1].arg
                       [] OTHER -> stuck
      [] OTHER -> Panic("InvalidFormatRepr")

\* A loop that applies the head to every entry of the rigid environment.
eval_insertion_all(rigid_exprs, flexible_exprs, head_expr, rigid_infos, i) ==
    IF i > Len(rigid_infos) \/ i > Len(rigid_exprs)
    THEN head_expr
    ELSE Sem("eval_insertion", <<rigid_exprs, flexible_exprs,
            Sem("fun_app", <<flexible_exprs, head_expr, rigid_exprs[i]>>),
            rigid_infos, i + 1>>)

\* The loop of eval's FlexibleInsertion arm: the head applied to the entries
\* of the rigid environment tagged Parameter, zipped from the oldest entry.
eval_insertion(rigid_exprs, flexible_exprs, head_expr, rigid_infos, i) ==
    IF i > Len(rigid_infos) \/ i > Len(rigid_exprs)
    THEN head_expr
    ELSE Sem("eval_insertion", <<rigid_exprs, flexible_exprs,
            IF rigid_infos[i] = "Definition"
            THEN head_expr
            ELSE Sem("fun_app", <<flexible_exprs, head_expr, rigid_exprs[i]>>),
            rigid_infos, i + 1>>)

\* EvalContext::eval.
eval(rigid_exprs, flexible_exprs, term) ==
    CASE term.tag = "RigidVar" ->
            LET e == get_local(rigid_exprs, term.ix)
            IN  IF e.tag = "Some" THEN e.val ELSE Panic("InvalidRigidVar")
      [] term.tag = "FlexibleVar" ->
            LET e == get_global(flexible_exprs, term.lv)
            IN  IF e.tag = "None" THEN Panic("InvalidFlexibleVar")
                ELSE IF e.val.tag = "None" THEN ValueFlexibleVar(term.lv)
                ELSE e.val.val
      [] term.tag = "FlexibleInsertion" ->
            Sem("eval_insertion", <<rigid_exprs, flexible_exprs,
                Sem("eval", <<rigid_exprs, flexible_exprs, TermFlexibleVar(term.lv)>>),
                term.infos, 1>>)
      [] term.tag = "Ann" -> Sem("eval", <<rigid_exprs, flexible_exprs, term.expr>>)
      [] term.tag = "Let" ->
            Sem("eval", <<Append(rigid_exprs, Sem("eval", <<rigid_exprs, flexible_exprs, term.def>>)),
                 flexible_exprs, term.body>>)
      [] term.tag = "Universe" -> ValueUniverse
      [] term.tag = "FunType" ->
            ValueFunTypeOf(term.plicity,
                           Sem("eval", <<rigid_exprs, flexible_exprs, term.input>>),
                           Closure(rigid_exprs, term.output))
      [] term.tag = "FunLit" -> ValueFunLitOf(term.plicity, Closure(rigid_exprs, term.body))
      [] term.tag = "FunApp" ->
            Sem("fun_app", <<flexible_exprs,
                    Sem("eval", <<rigid_exprs, flexible_exprs, term.head>>),
                    Sem("eval", <<rigid_exprs, flexible_exprs, term.arg>>)>>)
      [] term.tag = "RecordType" ->
            ValueRecordType(term.labels, Telescope(rigid_exprs, term.terms))
      [] term.tag = "RecordLit" ->
            ValueRecordLit(term.labels,
                [i \in 1..Len(term.terms) |-> Sem("eval", <<rigid_exprs, flexible_exprs, term.terms[i]>>)])
      [] term.tag = "RecordProj" ->
            Sem("record_proj", <<flexible_exprs, Sem("eval", <<rigid_exprs, flexible_exprs, term.head>>), term.label>>)
      [] term.tag = "ArrayLit" ->
            ValueArrayLit(
                [i \in 1..Len(term.terms) |-> Sem("eval", <<rigid_exprs, flexible_exprs, term.terms[i]>>)])
      [] term.tag = "FormatRecord" ->
            ValueFormatRecord(term.labels, Telescope(rigid_exprs, term.terms))
      [] term.tag = "FormatOverlap" ->
            ValueFormatOverlap(term.labels, Telescope(rigid_exprs, term.terms))
      [] term.tag = "Prim" -> ValuePrim(term.prim, <<>>)
      [] term.tag = "ConstLit" -> ValueConstLit(term.const)
      [] term.tag = "ConstMatch" ->
            Sem("const_match", <<flexible_exprs,
                Sem("eval", <<rigid_exprs, flexible_exprs, term.head>>),
                Branches(rigid_exprs, term.branches, term.default)>>)

(***************************************************************************)
(* Forcing, telescopes and branches.                                       *)
(***************************************************************************)

\* The fold of apply_spine, from the i-th elimination on.
apply_spine_from(flexible_exprs, head_expr, spine, i) ==
    IF i > Len(spine) THEN head_expr
    ELSE Sem("apply_spine_from", <<flexible_exprs,
            CASE spine[i].e = "FunApp" -> Sem("fun_app", <<flexible_exprs, head_expr, spine[i].arg>>)
              [] spine[i].e = "RecordProj" -> Sem("record_proj", <<flexible_exprs, head_expr, spine[i].label>>)
              [] spine[i].e = "ConstMatch" -> Sem("const_match", <<flexible_exprs, head_expr, spine[i].branches>>),
            spine, i + 1>>)

\* ElimContext::apply_spine.
apply_spine(flexible_exprs, head_expr, spine) ==
    Sem("apply_spine_from", <<flexible_exprs, head_expr, spine, 1>>)

\* One turn of force's loop on a value stuck on a flexible variable:
\* Some(next value) when the variable has a solution, None when it has not.
force_step(flexible_exprs, value) ==
    LET e == get_global(flexible_exprs, value.head.lv)
    IN  IF e.tag = "None" THEN Some(Panic("InvalidFlexibleVar"))
        ELSE IF e.val.tag = "Some"
             THEN Some(Sem("apply_spine", <<flexible_exprs, e.val.val, value.spine>>))
             ELSE None

\* A force that takes one turn of the loop only.
force_once(flexible_exprs, value) ==
    IF value.tag = "Stuck" /\ value.head.k = "FlexibleVar"
    THEN LET next == Sem("force_step", <<flexible_exprs, value>>)
         IN  IF next.tag = "Some" THEN next.val ELSE value
    ELSE value

\* A force that never looks a metavariable up.
force_never(flexible_exprs, value) == value

\* ElimContext::force.
force(flexible_exprs, value) ==
    IF value.tag = "Stuck" /\ value.head.k = "FlexibleVar"
    THEN LET next == Sem("force_step", <<flexible_exprs, value>>)
         IN  IF next.tag = "Some" THEN Sem("force", <<flexible_exprs, next.val>>) ELSE value
    ELSE value

\* ElimContext::split_telescope: None for an empty telescope, otherwise the
\* first value and the telescope of the remaining terms, which
\* next_telescope completes with the value bound for the first.
split_telescope(flexible_exprs, telescope) ==
    IF telescope.terms = <<>> THEN None
    ELSE LET v == Sem("eval", <<telescope.rigid_exprs, flexible_exprs, Head(telescope.terms)>>)
         IN  Some([value |-> IF telescope.apply_repr
                             THEN Sem("format_repr", <<flexible_exprs, v>>)
                             ELSE v,
                   rest |-> [telescope EXCEPT !.terms = Tail(telescope.terms)]])

\* The continuation returned by split_telescope.
next_telescope(rest, previous_value) ==
    [rest EXCEPT !.rigid_exprs = Append(rest.rigid_exprs, previous_value)]

\* ElimContext::split_branches.
split_branches(flexible_exprs, branches) ==
    IF branches.pattern_branches # <<>>
    THEN [tag |-> "Branch",
          const |-> Head(branches.pattern_branches)[1],
          value |-> Sem("eval", <<branches.rigid_exprs, flexible_exprs,
                         Head(branches.pattern_branches)[2]>>),
          rest |-> [branches EXCEPT !.pattern_branches = Tail(branches.pattern_branches)]]
    ELSE IF branches.default_expr.tag = "Some"
         THEN [tag |-> "Default",
               closure |-> Closure(branches.rigid_exprs, branches.default_expr.val)]
         ELSE [tag |-> "None"]

(***************************************************************************)
(* Quotation.  rigid_len is the length of the rigid environment.           *)
(***************************************************************************)

\* The loop of quote's ConstMatch arm: the quoted branches and default.
quote_branches(rigid_len, flexible_exprs, branches, acc) ==
    LET s == Sem("split_branches", <<flexible_exprs, branches>>)
    IN  CASE s.tag = "Branch" ->
                Sem("quote_branches", <<rigid_len, flexible_exprs, s.rest,
                    Append(acc, <<s.const, Sem("quote", <<rigid_len, flexible_exprs, s.value>>)>>)>>)
          [] s.tag = "Default" ->
                [branches |-> acc,
                 default |-> Some(Sem("quote_closure", <<rigid_len, flexible_exprs, s.closure>>))]
          [] s.tag = "None" -> [branches |-> acc, default |-> None]

\* The fold of quote's Stuck arm over the spine, from the i-th elimination.
quote_spine(rigid_len, flexible_exprs, head_expr, spine, i) ==
    IF i > Len(spine) THEN head_expr
    ELSE Sem("quote_spine", <<rigid_len, flexible_exprs,
            CASE spine[i].e = "FunApp" ->
                    TermFunApp(head_expr, Sem("quote", <<rigid_len, flexible_exprs, spine[i].arg>>))
              [] spine[i].e = "RecordProj" -> TermRecordProj(head_expr, spine[i].label)
              [] spine[i].e = "ConstMatch" ->
                    LET q == Sem("quote_branches", <<rigid_len, flexible_exprs, spine[i].branches, <<>>>>)
                    IN  TermConstMatch(head_expr, q.branches, q.default),
            spine, i + 1>>)

\* QuoteContext::quote_closure.
quote_closure(rigid_len, flexible_exprs, closure) ==
    Sem("quote", <<rigid_len + 1, flexible_exprs,
          Sem("apply_closure", <<flexible_exprs, closure, ValueRigidVar(rigid_len)>>)>>)

\* QuoteContext::quote_telescope.
quote_telescope(rigid_len, flexible_exprs, telescope) ==
    LET s == Sem("split_telescope", <<flexible_exprs, telescope>>)
    IN  IF s.tag = "None" THEN <<>>
        ELSE <<Sem("quote", <<rigid_len, flexible_exprs, s.val.value>>)>>
             \o Sem("quote_telescope", <<rigid_len + 1, flexible_exprs,
                    next_telescope(s.val.rest, ValueRigidVar(rigid_len))>>)

\* QuoteContext::quote.
quote(rigid_len, flexible_exprs, value0) ==
    LET value == Sem("force", <<flexible_exprs, value0>>)
    IN  CASE value.tag = "Stuck" ->
                LET head == value.head
                    head_expr ==
                        CASE head.k = "Prim" -> TermPrim(head.prim)
                          [] head.k = "RigidVar" ->
                                LET l == global_to_local(rigid_len, head.lv)
                                IN  IF l.tag = "Some" THEN TermRigidVar(l.val)
                                    ELSE Panic("InvalidRigidVar")
                          [] head.k = "FlexibleVar" -> TermFlexibleVar(head.lv)
                IN  Sem("quote_spine", <<rigid_len, flexible_exprs, head_expr, value.spine, 1>>)
          [] value.tag = "Universe" -> TermUniverse
          [] value.tag = "FunType" ->
                TermFunTypeOf(value.plicity,
                              Sem("quote", <<rigid_len, flexible_exprs, value.input>>),
                              Sem("quote_closure", <<rigid_len, flexible_exprs, value.closure>>))
          [] value.tag = "FunLit" ->
                TermFunLitOf(value.plicity,
                             Sem("quote_closure", <<rigid_len, flexible_exprs, value.closure>>))
          [] value.tag = "RecordType" ->
                TermRecordType(value.labels,
                    Sem("quote_telescope", <<rigid_len, flexible_exprs, value.telescope>>))
          [] value.tag = "RecordLit" ->
                TermRecordLit(value.labels,
                    [i \in 1..Len(value.exprs) |-> Sem("quote", <<rigid_len, flexible_exprs, value.exprs[i]>>)])
          [] value.tag = "ArrayLit" ->
                TermArrayLit(
                    [i \in 1..Len(value.exprs) |-> Sem("quote", <<rigid_len, flexible_exprs, value.exprs[i]>>)])
          [] value.tag = "FormatRecord" ->
                TermFormatRecord(value.labels,
                    Sem("quote_telescope", <<rigid_len, flexible_exprs, value.telescope>>))
          [] value.tag = "FormatOverlap" ->
                TermFormatOverlap(value.labels,
                    Sem("quote_telescope", <<rigid_len, flexible_exprs, value.telescope>>))
          [] value.tag = "ConstLit" -> TermConstLit(value.const)
          [] OTHER -> value

\* EvalContext::normalise.
normalise(rigid_exprs, flexible_exprs, term) ==
    Sem("quote", <<Len(rigid_exprs), flexible_exprs, Sem("eval", <<rigid_exprs, flexible_exprs, term>>)>>)

(***************************************************************************)
(* Conversion checking.                                                    *)
(***************************************************************************)

\* A ReportedError that has been applied to nothing.
IsBareReportedError(value) ==
    /\ value.tag = "Stuck" /\ value.head.k = "Prim" /\ value.head.prim = "ReportedError"
    /\ value.spine = <<>>

IsReportedError(value) ==
    value.tag = "Stuck" /\ value.head.k = "Prim" /\ value.head.prim = "ReportedError"

\* The stuck arm's zip of two spines of equal length, from the i-th pair.
is_equal_spines(rigid_len, flexible_exprs, spine0, spine1, i) ==
    IF i > Len(spine0) THEN TRUE
    ELSE /\ CASE spine0[i].e = "FunApp" /\ spine1[i].e = "FunApp" ->
                    Sem("is_equal", <<rigid_len, flexible_exprs, spine0[i].arg, spine1[i].arg>>)
              [] spine0[i].e = "RecordProj" /\ spine1[i].e = "RecordProj" ->
                    spine0[i].label = spine1[i].label
              [] spine0[i].e = "ConstMatch" /\ spine1[i].e = "ConstMatch" ->
                    Sem("is_equal_branches", <<rigid_len, flexible_exprs,
                                      spine0[i].branches, spine1[i].branches>>)
              [] OTHER -> FALSE
         /\ Sem("is_equal_spines", <<rigid_len, flexible_exprs, spine0, spine1, i + 1>>)

\* Iterator::zip(exprs0, exprs1).all(is_equal): the pairs up to the shorter
\* of the two sequences, from the i-th pair.
is_equal_exprs(rigid_len, flexible_exprs, exprs0, exprs1, i) ==
    IF i > Len(exprs0) \/ i > Len(exprs1) THEN TRUE
    ELSE /\ Sem("is_equal", <<rigid_len, flexible_exprs, exprs0[i], exprs1[i]>>)
         /\ Sem("is_equal_exprs", <<rigid_len, flexible_exprs, exprs0, exprs1, i + 1>>)

\* ConversionContext::is_equal_closures.
is_equal_closures(rigid_len, flexible_exprs, closure0, closure1) ==
    Sem("is_equal", <<rigid_len + 1, flexible_exprs,
             Sem("apply_closure", <<flexible_exprs, closure0, ValueRigidVar(rigid_len)>>),
             Sem("apply_closure", <<flexible_exprs, closure1, ValueRigidVar(rigid_len)>>)>>)

\* The loop of is_equal_telescopes.
is_equal_telescopes_from(rigid_len, flexible_exprs, telescope0, telescope1) ==
    LET s0 == Sem("split_telescope", <<flexible_exprs, telescope0>>)
        s1 == Sem("split_telescope", <<flexible_exprs, telescope1>>)
    IN  IF s0.tag = "None" \/ s1.tag = "None" THEN TRUE
        ELSE /\ Sem("is_equal", <<rigid_len, flexible_exprs, s0.val.value, s1.val.value>>)
             /\ Sem("is_equal_telescopes_from", <<rigid_len + 1, flexible_exprs,
                    next_telescope(s0.val.rest, ValueRigidVar(rigid_len)),
                    next_telescope(s1.val.rest, ValueRigidVar(rigid_len))>>)

\* ConversionContext::is_equal_telescopes.
is_equal_telescopes(rigid_len, flexible_exprs, telescope0, telescope1) ==
    /\ Len(telescope0.terms) = Len(telescope1.terms)
    /\ Sem("is_equal_telescopes_from", <<rigid_len, flexible_exprs, telescope0, telescope1>>)

\* ConversionContext::is_equal_branches.
is_equal_branches(rigid_len, flexible_exprs, branches0, branches1) ==
    LET s0 == Sem("split_branches", <<flexible_exprs, branches0>>)
        s1 == Sem("split_branches", <<flexible_exprs, branches1>>)
    IN  CASE s0.tag = "Branch" /\ s1.tag = "Branch" ->
                /\ ConstEq(s0.const, s1.const)
                /\ Sem("is_equal", <<rigid_len, flexible_exprs, s0.value, s1.value>>)
                /\ Sem("is_equal_branches", <<rigid_len, flexible_exprs, s0.rest, s1.rest>>)
          [] s0.tag = "Default" /\ s1.tag = "Default" ->
                Sem("is_equal_closures", <<rigid_len, flexible_exprs, s0.closure, s1.closure>>)
          [] s0.tag = "None" /\ s1.tag = "None" -> TRUE
          [] OTHER -> FALSE

\* A comparison of a function literal's body with the other value itself,
\* not with the other value applied to the bound variable.
is_equal_fun_lit_unapplied(rigid_len, flexible_exprs, output_expr, value) ==
    Sem("is_equal", <<rigid_len + 1, flexible_exprs,
             Sem("apply_closure", <<flexible_exprs, output_expr, ValueRigidVar(rigid_len)>>),
             value>>)

\* ConversionContext::is_equal_fun_lit: eta-conversion for functions.
is_equal_fun_lit(rigid_len, flexible_exprs, output_expr, value) ==
    Sem("is_equal", <<rigid_len + 1, flexible_exprs,
             Sem("apply_closure", <<flexible_exprs, output_expr, ValueRigidVar(rigid_len)>>),
             Sem("fun_app", <<flexible_exprs, value, ValueRigidVar(rigid_len)>>)>>)

\* The zip of labels and exprs of is_equal_record_lit, from the i-th pair.
is_equal_record_lit_from(rigid_len, flexible_exprs, labels, exprs, value, i) ==
    IF i > Len(labels) \/ i > Len(exprs) THEN TRUE
    ELSE /\ Sem("is_equal", <<rigid_len, flexible_exprs, exprs[i],
                     Sem("record_proj", <<flexible_exprs, value, labels[i]>>)>>)
         /\ Sem("is_equal_record_lit_from", <<rigid_len, flexible_exprs, labels, exprs, value, i + 1>>)

\* ConversionContext::is_equal_record_lit: eta-conversion for records.
is_equal_record_lit(rigid_len, flexible_exprs, labels, exprs, value) ==
    Sem("is_equal_record_lit_from", <<rigid_len, flexible_exprs, labels, exprs, value, 1>>)

\* ConversionContext::is_equal.
is_equal(rigid_len, flexible_exprs, v0, v1) ==
    LET value0 == Sem("force", <<flexible_exprs, v0>>)
        value1 == Sem("force", <<flexible_exprs, v1>>)
    IN  CASE IsReportedError(value0) \/ IsReportedError(value1) -> TRUE
          [] value0.tag = "Stuck" /\ value1.tag = "Stuck" ->
                /\ value0.head = value1.head
                /\ Len(value0.spine) = Len(value1.spine)
                /\ Sem("is_equal_spines", <<rigid_len, flexible_exprs, value0.spine, value1.spine, 1>>)
          [] value0.tag = "Universe" /\ value1.tag = "Universe" -> TRUE
          [] value0.tag = "FunType" /\ value1.tag = "FunType" ->
                /\ Sem("is_equal", <<rigid_len, flexible_exprs, value0.input, value1.input>>)
                /\ Sem("is_equal_closures", <<rigid_len, flexible_exprs, value0.closure, value1.closure>>)
          [] value0.tag = "FunLit" /\ value1.tag = "FunLit" ->
                Sem("is_equal_closures", <<rigid_len, flexible_exprs, value0.closure, value1.closure>>)
          [] value0.tag = "FunLit" ->
                Sem("is_equal_fun_lit", <<rigid_len, flexible_exprs, value0.closure, value1>>)
          [] value1.tag = "FunLit" ->
                Sem("is_equal_fun_lit", <<rigid_len, flexible_exprs, value1.closure, value0>>)
          [] value0.tag = "RecordType" /\ value1.tag = "RecordType" ->
                /\ value0.labels = value1.labels
                /\ Sem("is_equal_telescopes", <<rigid_len, flexible_exprs,
                                       value0.telescope, value1.telescope>>)
          [] value0.tag = "RecordLit" /\ value1.tag = "RecordLit" ->
                /\ value0.labels = value1.labels
                /\ Sem("is_equal_exprs", <<rigid_len, flexible_exprs, value0.exprs, value1.exprs, 1>>)
          [] value0.tag = "RecordLit" ->
                Sem("is_equal_record_lit", <<rigid_len, flexible_exprs,
                                    value0.labels, value0.exprs, value1>>)
          [] value1.tag = "RecordLit" ->
                Sem("is_equal_record_lit", <<rigid_len, flexible_exprs,
                                    value1.labels, value1.exprs, value0>>)
          [] value0.tag = "ArrayLit" /\ value1.tag = "ArrayLit" ->
                Sem("is_equal_exprs", <<rigid_len, flexible_exprs, value0.exprs, value1.exprs, 1>>)
          [] value0.tag = value1.tag /\ value0.tag \in {"FormatRecord", "FormatOverlap"} ->
                /\ value0.labels = value1.labels
                /\ Sem("is_equal_telescopes", <<rigid_len, flexible_exprs,
                                       value0.telescope, value1.telescope>>)
          [] value0.tag = "ConstLit" /\ value1.tag = "ConstLit" ->
                ConstEq(value0.const, value1.const)
          [] OTHER -> FALSE

(***************************************************************************)
(* Bounded sets of well-typed input terms.  A context is the sequence of   *)
(* the simple types of the local binders, oldest first; metavariable m     *)
(* has the simple type MetaType(m).  "Fun" is U8 -> U8 and "Rec" is        *)
(* { x : U8, y : U8 }.                                                     *)
(***************************************************************************)
MaxLocals == 1
MaxMetas == 4
MaxDepth == 1

MetaTypes == <<"Fun", "U8", "Format", "Type">>
MetaType(m) == MetaTypes[(m % Len(MetaTypes)) + 1]
LocalTypes == {"U8", "Bool", "Fun", "Rec", "Format"}
RecLabels == <<"x", "y">>

U8Lit(n, style) == TermConstLit(ConstU8(n, style))
BoolLit(b) == TermConstLit(ConstBool(b))
PrimApp1(p, a) == TermFunApp(TermPrim(p), a)
PrimApp2(p, a, b) == TermFunApp(TermFunApp(TermPrim(p), a), b)

\* The simple type of a variable bound to a field of format f, or of type t.
ReprTypeOf(f) == IF f = TermPrim("FormatU8") THEN "U8" ELSE "Opaque"
TypeOfType(t) == IF t = TermPrim("U8Type") THEN "U8" ELSE "Opaque"

Atoms(ctx, n, ty) ==
    {TermRigidVar(i) : i \in {j \in 0..(Len(ctx) - 1) : ctx[Len(ctx) - j] = ty}}
    \cup {TermFlexibleVar(m) : m \in {k \in 0..(n - 1) : MetaType(k) = ty}}
    \cup CASE ty = "U8" -> {U8Lit(1, "Decimal"), U8Lit(U8Max, "Hexadecimal")}
           [] ty = "Bool" -> {BoolLit(TRUE), BoolLit(FALSE)}
           [] ty = "Format" -> {TermPrim("FormatU8")}
           [] ty = "Type" -> {TermPrim("U8Type")}
           [] ty = "Fun" -> {TermPrim("U8Not")}
           [] OTHER -> {}

RECURSIVE Gen(_, _, _, _)
Gen(ctx, n, ty, d) ==
    IF d = 0 THEN Atoms(ctx, n, ty)
    ELSE Atoms(ctx, n, ty) \cup
      CASE ty = "U8" ->
             {PrimApp2("U8Add", a, b) : a \in Gen(ctx, n, "U8", d - 1), b \in Atoms(ctx, n, "U8")}
             \cup {TermFunApp(f, a) : f \in Gen(ctx, n, "Fun", d - 1), a \in Atoms(ctx, n, "U8")}
             \cup {TermRecordProj(r, RecLabels[1]) : r \in Gen(ctx, n, "Rec", d - 1)}
             \cup {TermLet(a, b) : a \in Atoms(ctx, n, "U8"),
                                   b \in Gen(Append(ctx, "U8"), n, "U8", d - 1)}
             \cup {TermConstMatch(c, <<<<ConstBool(TRUE), a>>>>, Some(b)) :
                      c \in Atoms(ctx, n, "Bool"), a \in Atoms(ctx, n, "U8"),
                      b \in Gen(Append(ctx, "Bool"), n, "U8", d - 1)}
        [] ty = "Fun" ->
             {TermFunLit(b) : b \in Gen(Append(ctx, "U8"), n, "U8", d - 1)}
             \cup {PrimApp1("U8Add", a) : a \in Atoms(ctx, n, "U8")}
        [] ty = "Rec" ->
             {TermRecordLit(RecLabels, <<a, b>>) :
                      a \in Gen(ctx, n, "U8", d - 1), b \in Atoms(ctx, n, "U8")}
        [] ty = "Format" ->
             UNION {{[tag |-> k, labels |-> RecLabels, terms |-> <<f, g>>] :
                        k \in {"FormatRecord", "FormatOverlap"},
                        g \in Gen(Append(ctx, ReprTypeOf(f)), n, "Format", d - 1)} :
                    f \in Atoms(ctx, n, "Format")}
             \cup {PrimApp2("FormatArray8", a, f) :
                      a \in Atoms(ctx, n, "U8"), f \in Gen(ctx, n, "Format", d - 1)}
             \cup {PrimApp2("FormatSucceed", TermPrim("U8Type"), a) : a \in Atoms(ctx, n, "U8")}
        [] ty = "Type" ->
             {PrimApp1("FormatRepr", f) : f \in Gen(ctx, n, "Format", d - 1)}
             \cup UNION {{TermRecordType(RecLabels, <<a, b>>) :
                           b \in Gen(Append(ctx, TypeOfType(a)), n, "Type", d - 1)} :
                         a \in Atoms(ctx, n, "Type")}
             \cup {TermFunType(TermPrim("U8Type"), b) :
                      b \in Gen(Append(ctx, "U8"), n, "Type", d - 1)}
        [] OTHER -> {}

(***************************************************************************)
(* Traversals of terms.                                                    *)
(***************************************************************************)
RECURSIVE TermLeaves(_)
RECURSIVE MapIndices(_, _, _)

SeqUnion(sets) == UNION {sets[i] : i \in 1..Len(sets)}

\* The variables, metavariables and failure markers occurring in a term.
TermLeaves(t) ==
    CASE t.tag \in {"RigidVar", "FlexibleVar", "FlexibleInsertion", "Panic"} -> {t}
      [] t.tag = "Ann" -> TermLeaves(t.expr) \cup TermLeaves(t.type)
      [] t.tag = "Let" -> TermLeaves(t.def) \cup TermLeaves(t.body)
      [] t.tag = "FunType" -> TermLeaves(t.input) \cup TermLeaves(t.output)
      [] t.tag = "FunLit" -> TermLeaves(t.body)
      [] t.tag = "FunApp" -> TermLeaves(t.head) \cup TermLeaves(t.arg)
      [] t.tag \in {"RecordType", "RecordLit", "FormatRecord", "FormatOverlap", "ArrayLit"} ->
            SeqUnion([i \in 1..Len(t.terms) |-> TermLeaves(t.terms[i])])
      [] t.tag = "RecordProj" -> TermLeaves(t.head)
      [] t.tag = "ConstMatch" ->
            TermLeaves(t.head)
            \cup SeqUnion([i \in 1..Len(t.branches) |-> TermLeaves(t.branches[i][2])])
            \cup (IF t.default.tag = "Some" THEN TermLeaves(t.default.val) ELSE {})
      [] OTHER -> {}

TermFlexibleVars(t) == {l.lv : l \in {x \in TermLeaves(t) : x.tag = "FlexibleVar"}}
TermHasPanic(t) == \E l \in TermLeaves(t) : l.tag = "Panic"

\* The term t, which sits under d binders of its own, with every index that
\* points past those binders sent through map: a function from outer indices
\* to the new outer index, or to -1 for a variable that is out of scope.
MapIndices(t, d, map) ==
    CASE t.tag = "RigidVar" ->
            IF t.ix < d THEN t
            ELSE IF (t.ix - d) \in DOMAIN map /\ map[t.ix - d] >= 0
                 THEN TermRigidVar(map[t.ix - d] + d)
                 ELSE Panic("ScopeError")
      [] t.tag = "Ann" -> TermAnn(MapIndices(t.expr, d, map), MapIndices(t.type, d, map))
      [] t.tag = "Let" -> TermLet(MapIndices(t.def, d, map), MapIndices(t.body, d + 1, map))
      [] t.tag = "FunType" ->
            TermFunTypeOf(t.plicity, MapIndices(t.input, d, map),
                          MapIndices(t.output, d + 1, map))
      [] t.tag = "FunLit" -> TermFunLitOf(t.plicity, MapIndices(t.body, d + 1, map))
      [] t.tag = "FunApp" -> TermFunApp(MapIndices(t.head, d, map), MapIndices(t.arg, d, map))
      [] t.tag \in {"RecordType", "FormatRecord", "FormatOverlap"} ->
            [t EXCEPT !.terms = [i \in 1..Len(t.terms) |->
                                    MapIndices(t.terms[i], d + i - 1, map)]]
      [] t.tag \in {"RecordLit", "ArrayLit"} ->
            [t EXCEPT !.terms = [i \in 1..Len(t.terms) |-> MapIndices(t.terms[i], d, map)]]
      [] t.tag = "RecordProj" -> TermRecordProj(MapIndices(t.head, d, map), t.label)
      [] t.tag = "ConstMatch" ->
            TermConstMatch(MapIndices(t.head, d, map),
                [i \in 1..Len(t.branches) |->
                    <<t.branches[i][1], MapIndices(t.branches[i][2], d, map)>>],
                IF t.default.tag = "Some"
                THEN Some(MapIndices(t.default.val, d + 1, map))
                ELSE None)
      [] OTHER -> t

\* The term t of a scope of len binders, moved under one more binder.
Weaken(t, len) == MapIndices(t, 0, [i \in 0..(len - 1) |-> i + 1])

\* fun x => f x, for a term f of a scope of len binders.
EtaExpandFun(f, len) == TermFunLit(TermFunApp(Weaken(f, len), TermRigidVar(0)))

\* { l = r.l | l in labels }.
EtaExpandRecord(r, labels) ==
    TermRecordLit(labels, [i \in 1..Len(labels) |-> TermRecordProj(r, labels[i])])

(***************************************************************************)
(* Unification (specification section 4.4).  The result is Ok with the     *)
(* metavariable solutions after the call, or Err with the error kind and   *)
(* the solutions made before the failure, which stay in place.             *)
(***************************************************************************)

UnifyOk(flexible_exprs) == [tag |-> "Ok", flexible_exprs |-> flexible_exprs]
UnifyErr(error, flexible_exprs) ==
    [tag |-> "Err", error |-> error, flexible_exprs |-> flexible_exprs]

IsFlexible(value) == value.tag = "Stuck" /\ value.head.k = "FlexibleVar"

\* SliceEnv::set_global on the solutions: the entry is overwritten whatever
\* it held.
set_global(entries, global, entry) == [entries EXCEPT ![global + 1] = entry]

\* A pattern spine: applications to distinct rigid variables.
IsPatternSpine(spine) ==
    /\ \A i \in 1..Len(spine) :
          /\ spine[i].e = "FunApp"
          /\ spine[i].arg.tag = "Stuck"
          /\ spine[i].arg.head.k = "RigidVar"
          /\ spine[i].arg.spine = <<>>
    /\ \A i, j \in 1..Len(spine) : i # j => spine[i].arg.head.lv # spine[j].arg.head.lv

\* The partial renaming of a pattern spine, as a map from the indices of
\* the outer scope to the indices of the metavariable's scope.
SpineRenaming(rigid_len, spine) ==
    [i \in 0..(rigid_len - 1) |->
        LET level == rigid_len - 1 - i
            hits == {k \in 1..Len(spine) : spine[k].arg.head.lv = level}
        IN  IF hits = {} THEN -1 ELSE Len(spine) - (CHOOSE k \in hits : TRUE)]

RECURSIVE FunIntros(_, _)
FunIntros(n, term) == IF n = 0 THEN term ELSE TermFunLit(FunIntros(n - 1, term))

\* Step 3: solve the metavariable that heads a pattern spine.
solve(rigid_len, flexible_exprs, flexible_var, spine, value) ==
    IF ~IsPatternSpine(spine) THEN UnifyErr("Spine", flexible_exprs)
    ELSE LET term == MapIndices(Sem("quote", <<rigid_len, flexible_exprs, value>>), 0,
                                SpineRenaming(rigid_len, spine))
         IN  IF flexible_var \in TermFlexibleVars(term) THEN UnifyErr("OccursCheck", flexible_exprs)
             ELSE IF TermHasPanic(term) THEN UnifyErr("ScopeError", flexible_exprs)
             ELSE UnifyOk(set_global(flexible_exprs, flexible_var,
                     Some(Sem("eval", <<<<>>, flexible_exprs, FunIntros(Len(spine), term)>>))))

\* Step 2: the spines of two values stuck on the same head, pointwise.
unify_spines(rigid_len, flexible_exprs, spine0, spine1, i) ==
    IF Len(spine0) # Len(spine1) THEN UnifyErr("Mismatch", flexible_exprs)
    ELSE IF i > Len(spine0) THEN UnifyOk(flexible_exprs)
    ELSE IF spine0[i].e = "FunApp" /\ spine1[i].e = "FunApp"
         THEN LET r == Sem("unify", <<rigid_len, flexible_exprs, spine0[i].arg, spine1[i].arg>>)
              IN  IF r.tag = "Ok"
                  THEN Sem("unify_spines", <<rigid_len, r.flexible_exprs, spine0, spine1, i + 1>>)
                  ELSE r
         ELSE IF Sem("is_equal_spines", <<rigid_len, flexible_exprs, <<spine0[i]>>, <<spine1[i]>>, 1>>)
              THEN Sem("unify_spines", <<rigid_len, flexible_exprs, spine0, spine1, i + 1>>)
              ELSE UnifyErr("Mismatch", flexible_exprs)

\* unify: steps 1 to 3 and 6; the structural congruence of step 5 is the
\* conversion check, which solves nothing.
unify(rigid_len, flexible_exprs, value0, value1) ==
    LET v0 == Sem("force", <<flexible_exprs, value0>>)
        v1 == Sem("force", <<flexible_exprs, value1>>)
    IN  CASE v0.tag = "Stuck" /\ v1.tag = "Stuck" /\ v0.head = v1.head ->
                Sem("unify_spines", <<rigid_len, flexible_exprs, v0.spine, v1.spine, 1>>)
          [] IsFlexible(v0) -> Sem("solve", <<rigid_len, flexible_exprs, v0.head.lv, v0.spine, v1>>)
          [] IsFlexible(v1) -> Sem("solve", <<rigid_len, flexible_exprs, v1.head.lv, v1.spine, v0>>)
          [] OTHER ->
                IF Sem("is_equal", <<rigid_len, flexible_exprs, v0, v1>>)
                THEN UnifyOk(flexible_exprs)
                ELSE UnifyErr("Mismatch", flexible_exprs)

\* Every operation of the semantics reaches the others through Sem, which
\* makes the mutual recursion of the source one recursive operator: op names
\* the operation and a is the tuple of its arguments.
Sem(op, a) ==
    CASE op = "eval" -> eval(a[1], a[2], a[3])
      [] op = "eval_insertion" -> eval_insertion(a[1], a[2], a[3], a[4], a[5])
      [] op = "fun_app" -> fun_app(a[1], a[2], a[3])
      [] op = "apply_closure" -> apply_closure(a[1], a[2], a[3])
      [] op = "format_repr" -> format_repr(a[1], a[2])
      [] op = "prim_step" -> prim_step(a[1], a[2], a[3])
      [] op = "const_match" -> const_match(a[1], a[2], a[3])
      [] op = "const_match_branches" -> const_match_branches(a[1], a[2], a[3], a[4])
      [] op = "record_proj" -> record_proj(a[1], a[2], a[3])
      [] op = "apply_spine_from" -> apply_spine_from(a[1], a[2], a[3], a[4])
      [] op = "apply_spine" -> apply_spine(a[1], a[2], a[3])
      [] op = "force_step" -> force_step(a[1], a[2])
      [] op = "force" -> force(a[1], a[2])
      [] op = "split_telescope" -> split_telescope(a[1], a[2])
      [] op = "split_branches" -> split_branches(a[1], a[2])
      [] op = "quote_branches" -> quote_branches(a[1], a[2], a[3], a[4])
      [] op = "quote_spine" -> quote_spine(a[1], a[2], a[3], a[4], a[5])
      [] op = "quote_closure" -> quote_closure(a[1], a[2], a[3])
      [] op = "quote_telescope" -> quote_telescope(a[1], a[2], a[3])
      [] op = "quote" -> quote(a[1], a[2], a[3])
      [] op = "normalise" -> normalise(a[1], a[2], a[3])
      [] op = "is_equal_spines" -> is_equal_spines(a[1], a[2], a[3], a[4], a[5])
      [] op = "is_equal_exprs" -> is_equal_exprs(a[1], a[2], a[3], a[4], a[5])
      [] op = "is_equal_closures" -> is_equal_closures(a[1], a[2], a[3], a[4])
      [] op = "is_equal_telescopes_from" -> is_equal_telescopes_from(a[1], a[2], a[3], a[4])
      [] op = "is_equal_telescopes" -> is_equal_telescopes(a[1], a[2], a[3], a[4])
      [] op = "is_equal_branches" -> is_equal_branches(a[1], a[2], a[3], a[4])
      [] op = "is_equal_fun_lit" -> is_equal_fun_lit(a[1], a[2], a[3], a[4])
      [] op = "is_equal_record_lit_from" -> is_equal_record_lit_from(a[1], a[2], a[3], a[4], a[5], a[6])
      [] op = "is_equal_record_lit" -> is_equal_record_lit(a[1], a[2], a[3], a[4], a[5])
      [] op = "is_equal" -> is_equal(a[1], a[2], a[3], a[4])
      [] op = "unify" -> unify(a[1], a[2], a[3], a[4])
      [] op = "unify_spines" -> unify_spines(a[1], a[2], a[3], a[4], a[5])
      [] op = "solve" -> solve(a[1], a[2], a[3], a[4], a[5])

(***************************************************************************)
(* Diagnostics (Message) and metavariable sources (MetaSource).  A range   *)
(* is a number that stands for the place in the source text; the pretty-   *)
(* printed types and expressions that some messages carry are left out.    *)
(***************************************************************************)
MetaSource(kind, range) == [kind |-> kind, range |-> range]

MessageUnreachablePattern(range) == [kind |-> "UnreachablePattern", range |-> range]
MessageNonExhaustiveMatchExpr(range) == [kind |-> "NonExhaustiveMatchExpr", range |-> range]
MessageNumericLiteralNotSupported(range) == [kind |-> "NumericLiteralNotSupported", range |-> range]
MessageBooleanLiteralNotSupported(range) == [kind |-> "BooleanLiteralNotSupported", range |-> range]
MessageFailedToUnify(range, error) ==
    [kind |-> "FailedToUnify", range |-> range, error |-> error]
MessageUnsolvedMetaVar(source) == [kind |-> "UnsolvedMetaVar", source |-> source]
MessageMissingSpan(range) == [kind |-> "MissingSpan", range |-> range]
MessageHoleSolution(range) == [kind |-> "HoleSolution", range |-> range]

\* Context::push_message.
push_message(messages, message) == Append(messages, message)

(***************************************************************************)
(* Match elaboration (surface/elaboration.rs).  The operations that record *)
(* diagnostics take the message buffer and return it with their result.    *)
(* A row of a match is a pattern and a body; the bodies are core terms      *)
(* that already have the expected type.                                    *)
(***************************************************************************)
RECURSIVE Elab(_, _)

PatternName(range) == [tag |-> "Name", range |-> range]
PatternPlaceholder(range) == [tag |-> "Placeholder", range |-> range]
PatternNumberLiteral(range, n, style) ==
    [tag |-> "NumberLiteral", range |-> range, n |-> n, style |-> style]
PatternBooleanLiteral(range, b) == [tag |-> "BooleanLiteral", range |-> range, boolean |-> b]

CheckedPatternBinder(range) == [tag |-> "Binder", range |-> range]
CheckedPatternPlaceholder(range) == [tag |-> "Placeholder", range |-> range]
CheckedPatternConstLit(range, const) == [tag |-> "ConstLit", range |-> range, const |-> const]
CheckedPatternReportedError(range) == [tag |-> "ReportedError", range |-> range]

\* Term::error: the sentinel left where an error has been reported.
TermError == TermPrim("ReportedError")

\* Const::num_inhabitants: the number of constants of the constant's type,
\* when that is known.
num_inhabitants(const) ==
    CASE const.ty = "Bool" -> Some(2)
      [] const.ty \in {"U8", "S8"} -> Some(2 ^ U8Bits)
      [] OTHER -> None

\* Value::match_prim_spine.
match_prim_spine(value) ==
    IF value.tag = "Stuck" /\ value.head.k = "Prim"
    THEN Some([prim |-> value.head.prim, spine |-> value.spine])
    ELSE None

\* Context::check_pattern, for a number literal that parses.
check_pattern(pattern, expected_type, messages) ==
    LET range == pattern.range
        ps == match_prim_spine(expected_type)
        IsPrim(p) == ps.tag = "Some" /\ ps.val.prim = p /\ ps.val.spine = <<>>
    IN  CASE pattern.tag = "Name" ->
                [pattern |-> CheckedPatternBinder(range), messages |-> messages]
          [] pattern.tag = "Placeholder" ->
                [pattern |-> CheckedPatternPlaceholder(range), messages |-> messages]
          [] pattern.tag = "NumberLiteral" ->
                CASE IsPrim("U8Type") ->
                        [pattern |-> CheckedPatternConstLit(range,
                                         ConstU8(pattern.n, pattern.style)),
                         messages |-> messages]
                  [] IsPrim("S8Type") ->
                        [pattern |-> CheckedPatternConstLit(range, ConstS8(pattern.n)),
                         messages |-> messages]
                  [] ps.tag = "Some" /\ ps.val.prim = "ReportedError" ->
                        [pattern |-> CheckedPatternReportedError(range), messages |-> messages]
                  [] OTHER ->
                        [pattern |-> CheckedPatternReportedError(range),
                         messages |-> push_message(messages,
                                          MessageNumericLiteralNotSupported(range))]
          [] pattern.tag = "BooleanLiteral" ->
                IF IsPrim("BoolType")
                THEN [pattern |-> CheckedPatternConstLit(range, ConstBool(pattern.boolean)),
                      messages |-> messages]
                ELSE [pattern |-> CheckedPatternReportedError(range),
                      messages |-> push_message(messages,
                                       MessageBooleanLiteralNotSupported(range))]

\* A reachability check that reports every row it is asked about.
check_match_reachable_always(is_reachable, range, messages) ==
    push_message(messages, MessageUnreachablePattern(range))

\* Context::check_match_reachable.
check_match_reachable(is_reachable, range, messages) ==
    IF ~is_reachable
    THEN push_message(messages, MessageUnreachablePattern(range))
    ELSE messages

\* An end of the rows that reports nothing.
elab_match_absurd_silent(is_reachable, match_info, messages) ==
    [term |-> TermError, messages |-> messages]

\* Context::elab_match_absurd.
elab_match_absurd(is_reachable, match_info, messages) ==
    [term |-> TermError,
     messages |-> IF is_reachable
                  THEN push_message(messages, MessageNonExhaustiveMatchExpr(match_info.range))
                  ELSE messages]

\* Context::elab_match_unreachable: the rows are elaborated for their
\* diagnostics and the term is dropped.
elab_match_unreachable(match_info, equations, messages) ==
    Elab("elab_match", <<match_info, FALSE, equations, messages>>).messages

\* Context::elab_match.
elab_match(match_info, is_reachable, equations, messages) ==
    IF equations = <<>> THEN elab_match_absurd(is_reachable, match_info, messages)
    ELSE LET body_expr == Head(equations).body
             rest == Tail(equations)
             checked == check_pattern(Head(equations).pattern, match_info.scrutinee.type,
                                      messages)
             pattern == checked.pattern
         IN  CASE pattern.tag = "Binder" ->
                    [term |-> TermLet(match_info.scrutinee.expr, body_expr),
                     messages |-> Elab("elab_match_unreachable", <<match_info, rest,
                         check_match_reachable(is_reachable, pattern.range, checked.messages)>>)]
               [] pattern.tag = "Placeholder" ->
                    [term |-> body_expr,
                     messages |-> Elab("elab_match_unreachable", <<match_info, rest,
                         check_match_reachable(is_reachable, pattern.range, checked.messages)>>)]
               [] pattern.tag = "ConstLit" ->
                    Elab("elab_match_const", <<match_info, is_reachable,
                         <<pattern.const, body_expr>>, rest,
                         check_match_reachable(is_reachable, pattern.range, checked.messages)>>)
               [] pattern.tag = "ReportedError" ->
                    [term |-> TermError,
                     messages |-> Elab("elab_match_unreachable",
                                       <<match_info, rest, checked.messages>>)]

\* The loop of slice::binary_search_by over branches sorted by constant,
\* with the comparison Const::cmp(probe, const): Ok with the index of a
\* branch on an equal constant, or Err with the index (from 0) at which the
\* constant keeps the branches sorted.
RECURSIVE binary_search_from(_, _, _, _)
binary_search_from(branches, const, left, right) ==
    IF left >= right THEN [tag |-> "Err", index |-> left]
    ELSE LET mid == left + ((right - left) \div 2)
             cmp == ConstCmp(branches[mid + 1][1], const)
         IN  CASE cmp = 0 -> [tag |-> "Ok", index |-> mid]
               [] cmp < 0 -> binary_search_from(branches, const, mid + 1, right)
               [] cmp > 0 -> binary_search_from(branches, const, left, mid)

\* A search that finds nothing and answers the end of the branches.
binary_search_end(branches, const) == [tag |-> "Err", index |-> Len(branches)]

\* branches.binary_search_by(|(probe_const, _)| Const::cmp(probe_const, &const)).
binary_search_by(branches, const) == binary_search_from(branches, const, 0, Len(branches))

\* Vec::insert: the element goes in at the index (from 0).
VecInsert(vec, index, element) ==
    SubSeq(vec, 1, index) \o <<element>> \o SubSeq(vec, index + 1, Len(vec))

\* The loop of elab_match_const over the rows after the first constant row,
\* with the branches gathered so far.
elab_match_const_loop(match_info, is_reachable, branches, equations, messages) ==
    IF equations = <<>>
    THEN LET default_expr == elab_match_absurd(is_reachable, match_info, messages)
         IN  [term |-> TermConstMatch(match_info.scrutinee.expr, branches,
                                      Some(default_expr.term)),
              messages |-> default_expr.messages]
    ELSE LET body_expr == Head(equations).body
             rest == Tail(equations)
             checked == check_pattern(Head(equations).pattern, match_info.scrutinee.type,
                                      messages)
             pattern == checked.pattern
         IN  IF pattern.tag = "ConstLit"
             THEN LET insertion_index == binary_search_by(branches, pattern.const)
                      found == insertion_index.tag = "Ok"
                      branches1 == IF found THEN branches
                                   ELSE VecInsert(branches, insertion_index.index,
                                                  <<pattern.const, body_expr>>)
                      messages1 == IF found
                                   THEN push_message(checked.messages,
                                            MessageUnreachablePattern(pattern.range))
                                   ELSE check_match_reachable(is_reachable, pattern.range,
                                                              checked.messages)
                      n == num_inhabitants(pattern.const)
                  IN  IF n.tag = "Some" /\ Len(branches1) >= n.val
                      THEN [term |-> TermConstMatch(match_info.scrutinee.expr, branches1, None),
                            messages |-> Elab("elab_match_unreachable",
                                              <<match_info, rest, messages1>>)]
                      ELSE Elab("elab_match_const_loop",
                                <<match_info, is_reachable, branches1, rest, messages1>>)
             ELSE [term |-> TermConstMatch(match_info.scrutinee.expr, branches,
                                           Some(body_expr)),
                   messages |-> IF pattern.tag # "ReportedError"
                                THEN Elab("elab_match_unreachable", <<match_info, rest,
                                         check_match_reachable(is_reachable, pattern.range,
                                                               checked.messages)>>)
                                ELSE checked.messages]

\* Context::elab_match_const.
elab_match_const(match_info, is_reachable, const_equation, equations, messages) ==
    Elab("elab_match_const_loop",
         <<match_info, is_reachable, <<const_equation>>, equations, messages>>)

\* Context::check_match, with the scrutinee already synthesised.
check_match(match_info, equations, messages) ==
    Elab("elab_match", <<match_info, TRUE, equations, messages>>)

\* The operations of match elaboration reach each other through Elab, which
\* makes the mutual recursion of the source one recursive operator.
Elab(op, a) ==
    CASE op = "elab_match" -> elab_match(a[1], a[2], a[3], a[4])
      [] op = "elab_match_unreachable" -> elab_match_unreachable(a[1], a[2], a[3])
      [] op = "elab_match_const" -> elab_match_const(a[1], a[2], a[3], a[4], a[5])
      [] op = "elab_match_const_loop" -> elab_match_const_loop(a[1], a[2], a[3], a[4], a[5])

(***************************************************************************)
(* The elaboration of a module: Spec.  elab_module elaborates the items    *)
(* one after the other and ends with handle_messages.  The elaboration of  *)
(* an item is a sequence of the steps below: metavariables are pushed,     *)
(* local definitions are bound to types, and types are coerced.            *)
(***************************************************************************)
MaxMetaEntries == 3
MaxItems == 2
MaxMessages == 2

TypeMetaKinds == {"HoleType", "PlaceholderType", "PlaceholderPatternType",
                  "NamedPatternType", "MatchExprType", "ReportedErrorType"}
ExprMetaKinds == {"ImplicitArg", "HoleExpr", "PlaceholderExpr"}

\* MetaEnv::push: the entry starts with no solution.
MetaEnvPush(meta_env, source) ==
    [sources |-> Append(meta_env.sources, source), exprs |-> Append(meta_env.exprs, None)]

\* The span of a core term: a range of the source, or none.
SpanRange(range) == [tag |-> "Range", range |-> range]
SpanEmpty == [tag |-> "Empty"]

\* The failure arm of coerce: MissingSpan first when the term has no span,
\* then FailedToUnify.
coerce_failure(messages0, surface_range, span, error) ==
    IF span.tag = "Range"
    THEN push_message(messages0, MessageFailedToUnify(span.range, error))
    ELSE push_message(push_message(messages0, MessageMissingSpan(surface_range)),
                      MessageFailedToUnify(surface_range, error))

\* A coercion that looks at the two types as they are given.
coerce_unforced(rigid_len, flexible_exprs0, messages0, surface_range, span, expr, from0, to0) ==
    IF from0 = ValuePrim("FormatType", <<>>) /\ to0 = ValueUniverse
    THEN [term |-> PrimApp1("FormatRepr", expr),
          flexible_exprs |-> flexible_exprs0, messages |-> messages0]
    ELSE LET r == Sem("unify", <<rigid_len, flexible_exprs0, from0, to0>>)
         IN  IF r.tag = "Ok"
             THEN [term |-> expr, flexible_exprs |-> r.flexible_exprs,
                   messages |-> messages0]
             ELSE [term |-> TermError, flexible_exprs |-> r.flexible_exprs,
                   messages |-> coerce_failure(messages0, surface_range, span, r.error)]

\* Context::coerce of the expression expr, whose span is span, from one type
\* to another: the term returned, the solutions and the message buffer after
\* the call.
coerce(rigid_len, flexible_exprs0, messages0, surface_range, span, expr, from0, to0) ==
    LET from == Sem("force", <<flexible_exprs0, from0>>)
        to == Sem("force", <<flexible_exprs0, to0>>)
    IN  IF from = ValuePrim("FormatType", <<>>) /\ to = ValueUniverse
        THEN [term |-> PrimApp1("FormatRepr", expr),
              flexible_exprs |-> flexible_exprs0, messages |-> messages0]
        ELSE LET r == Sem("unify", <<rigid_len, flexible_exprs0, from, to>>)
             IN  IF r.tag = "Ok"
                 THEN [term |-> expr, flexible_exprs |-> r.flexible_exprs,
                       messages |-> messages0]
                 ELSE [term |-> TermError, flexible_exprs |-> r.flexible_exprs,
                       messages |-> coerce_failure(messages0, surface_range, span, r.error)]

\* A turn that reports every entry without a solution.
meta_messages_all(expr, source) ==
    CASE expr.tag = "None" -> <<MessageUnsolvedMetaVar(source)>>
      [] expr.tag = "Some" /\ source.kind = "HoleExpr" ->
            <<MessageHoleSolution(source.range)>>
      [] OTHER -> <<>>

\* One turn of handle_messages' loop over the metavariables: the messages
\* for an entry with its solution slot and source.
meta_messages(expr, source) ==
    CASE expr.tag = "None" /\ source.kind = "HoleType" -> <<>>
      [] expr.tag = "None" /\ source.kind = "PlaceholderType" -> <<>>
      [] expr.tag = "None" /\ source.kind = "ReportedErrorType" -> <<>>
      [] expr.tag = "None" -> <<MessageUnsolvedMetaVar(source)>>
      [] expr.tag = "Some" /\ source.kind = "HoleExpr" ->
            <<MessageHoleSolution(source.range)>>
      [] OTHER -> <<>>

\* The loop over zip(exprs, sources), from the i-th entry.
RECURSIVE meta_messages_from(_, _, _)
meta_messages_from(exprs, sources, i) ==
    IF i > Len(exprs) \/ i > Len(sources) THEN <<>>
    ELSE meta_messages(exprs[i], sources[i]) \o meta_messages_from(exprs, sources, i + 1)

\* A delivery of the buffer from its newest message to its oldest.
handle_messages_newest_first(buffer, exprs, sources) ==
    [i \in 1..Len(buffer) |-> buffer[Len(buffer) + 1 - i]]
    \o meta_messages_from(exprs, sources, 1)

\* Context::handle_messages: the sequence of messages handed to on_message,
\* the drained buffer first.
handle_messages(buffer, exprs, sources) ==
    buffer \o meta_messages_from(exprs, sources, 1)

(***************************************************************************)
(* The rigid environment across a call: SpecFrame.  The operations of the  *)
(* evaluation, quotation and conversion contexts are written here with     *)
(* the context's rigid environment passed through them: each takes the     *)
(* environment (for evaluation) or its length (for quotation and           *)
(* conversion) as the context holds it on entry and returns, with its      *)
(* result, the environment or length the context holds on return.          *)
(***************************************************************************)
\* RawVar is a u16.
RawVarBits == 16
RawVarMax == 2 ^ RawVarBits - 1

\* An environment operation that returned.
EnvDone(env) == [tag |-> "Done", env |-> env]

\* SharedEnv::push: the assertion, then push_back_mut.
SharedEnv_push(entries, entry) ==
    IF Len(entries) < RawVarMax THEN EnvDone(Append(entries, entry))
    ELSE Panic("assertion failed: self.entries.len() < usize::from(u16::MAX)")

\* SharedEnv::pop: drop_last_mut, which leaves an empty vector empty.
SharedEnv_pop(entries) ==
    EnvDone(IF entries = <<>> THEN <<>> ELSE SubSeq(entries, 1, Len(entries) - 1))

Returned(val, rigid) == [val |-> val, rigid |-> rigid]

\* Ctx(op, a) is operation op of its context applied to the arguments a,
\* the first of which is the rigid environment or its length.
RECURSIVE Ctx(_, _)

\* QuoteContext::push_rigid, ConversionContext::push_rigid.
push_rigid(rigid_len) == (rigid_len + 1) % (2 ^ RawVarBits)

\* QuoteContext::pop_rigid, ConversionContext::pop_rigid.
pop_rigid(rigid_len) == (rigid_len - 1) % (2 ^ RawVarBits)

\* `a && b`: b is run from where a left the context, if a holds.
AndThen(first, op, a) ==
    IF first.val THEN Ctx(op, <<first.rigid>> \o a) ELSE first

\* The evaluation of the terms of a record or array literal, from the i-th.
ctx_eval_terms(rigid_exprs, flexible_exprs, terms, i, exprs) ==
    IF i > Len(terms) THEN Returned(exprs, rigid_exprs)
    ELSE LET Next(expr) ==
                 Ctx("eval_terms", <<expr.rigid, flexible_exprs, terms, i + 1,
                                     Append(exprs, expr.val)>>)
         IN  Next(Ctx("eval", <<rigid_exprs, flexible_exprs, terms[i]>>))

\* EvalContext::eval.  The arms that evaluate no subterm return the value
\* of eval and the environment they were given.
ctx_eval(rigid_exprs, flexible_exprs, term) ==
    CASE term.tag = "Ann" -> Ctx("eval", <<rigid_exprs, flexible_exprs, term.expr>>)
      [] term.tag = "Let" ->
            LET WithDef(def_expr) ==
                    LET WithOutput(output_expr) ==
                            Returned(output_expr.val, SharedEnv_pop(output_expr.rigid).env)
                    IN  WithOutput(Ctx("eval",
                            <<SharedEnv_push(def_expr.rigid, def_expr.val).env,
                              flexible_exprs, term.body>>))
            IN  WithDef(Ctx("eval", <<rigid_exprs, flexible_exprs, term.def>>))
      [] term.tag = "FunType" ->
            LET WithInput(input_type) ==
                    Returned(ValueFunTypeOf(term.plicity, input_type.val,
                                            Closure(input_type.rigid, term.output)),
                             input_type.rigid)
            IN  WithInput(Ctx("eval", <<rigid_exprs, flexible_exprs, term.input>>))
      [] term.tag = "FunApp" ->
            LET WithHead(head_expr) ==
                    LET WithInput(input_expr) ==
                            Returned(Sem("fun_app", <<flexible_exprs, head_expr.val,
                                                      input_expr.val>>),
                                     input_expr.rigid)
                    IN  WithInput(Ctx("eval", <<head_expr.rigid, flexible_exprs, term.arg>>))
            IN  WithHead(Ctx("eval", <<rigid_exprs, flexible_exprs, term.head>>))
      [] term.tag = "RecordLit" ->
            LET WithExprs(exprs) == Returned(ValueRecordLit(term.labels, exprs.val), exprs.rigid)
            IN  WithExprs(Ctx("eval_terms", <<rigid_exprs, flexible_exprs, term.terms, 1, <<>>>>))
      [] term.tag = "ArrayLit" ->
            LET WithExprs(exprs) == Returned(ValueArrayLit(exprs.val), exprs.rigid)
            IN  WithExprs(Ctx("eval_terms", <<rigid_exprs, flexible_exprs, term.terms, 1, <<>>>>))
      [] term.tag = "RecordProj" ->
            LET WithHead(head_expr) ==
                    Returned(Sem("record_proj", <<flexible_exprs, head_expr.val, term.label>>),
                             head_expr.rigid)
            IN  WithHead(Ctx("eval", <<rigid_exprs, flexible_exprs, term.head>>))
      [] term.tag = "ConstMatch" ->
            LET WithHead(head_expr) ==
                    Returned(Sem("const_match", <<flexible_exprs, head_expr.val,
                                 Branches(head_expr.rigid, term.branches, term.default)>>),
                             head_expr.rigid)
            IN  WithHead(Ctx("eval", <<rigid_exprs, flexible_exprs, term.head>>))
      [] OTHER -> Returned(Sem("eval", <<rigid_exprs, flexible_exprs, term>>), rigid_exprs)

\* The quotation of the expressions of a record or array literal.
ctx_quote_exprs(rigid_len, flexible_exprs, exprs, i, terms) ==
    IF i > Len(exprs) THEN Returned(terms, rigid_len)
    ELSE LET Next(term) ==
                 Ctx("quote_exprs", <<term.rigid, flexible_exprs, exprs, i + 1,
                                      Append(terms, term.val)>>)
         IN  Next(Ctx("quote", <<rigid_len, flexible_exprs, exprs[i]>>))

\* The loop of quote's ConstMatch arm.
ctx_quote_branches(rigid_len, flexible_exprs, branches, acc) ==
    LET Split(s) ==
            CASE s.tag = "Branch" ->
                    LET Next(term) ==
                            Ctx("quote_branches", <<term.rigid, flexible_exprs, s.rest,
                                                    Append(acc, <<s.const, term.val>>)>>)
                    IN  Next(Ctx("quote", <<rigid_len, flexible_exprs, s.value>>))
              [] s.tag = "Default" ->
                    LET WithDefault(term) ==
                            Returned([branches |-> acc, default |-> Some(term.val)], term.rigid)
                    IN  WithDefault(Ctx("quote_closure", <<rigid_len, flexible_exprs, s.closure>>))
              [] s.tag = "None" -> Returned([branches |-> acc, default |-> None], rigid_len)
    IN  Split(Sem("split_branches", <<flexible_exprs, branches>>))

\* The fold of quote's Stuck arm over the spine.
ctx_quote_spine(rigid_len, flexible_exprs, head_expr, spine, i) ==
    IF i > Len(spine) THEN Returned(head_expr, rigid_len)
    ELSE LET Next(term) ==
                 Ctx("quote_spine", <<term.rigid, flexible_exprs, term.val, spine, i + 1>>)
         IN  CASE spine[i].e = "FunApp" ->
                    LET WithInput(input_expr) ==
                            Returned(TermFunApp(head_expr, input_expr.val), input_expr.rigid)
                    IN  Next(WithInput(Ctx("quote", <<rigid_len, flexible_exprs, spine[i].arg>>)))
               [] spine[i].e = "RecordProj" ->
                    Next(Returned(TermRecordProj(head_expr, spine[i].label), rigid_len))
               [] spine[i].e = "ConstMatch" ->
                    LET WithBranches(q) ==
                            Returned(TermConstMatch(head_expr, q.val.branches, q.val.default),
                                     q.rigid)
                    IN  Next(WithBranches(Ctx("quote_branches",
                                 <<rigid_len, flexible_exprs, spine[i].branches, <<>>>>)))

\* QuoteContext::quote_closure.
ctx_quote_closure(rigid_len, flexible_exprs, closure) ==
    LET WithTerm(term) == Returned(term.val, pop_rigid(term.rigid))
    IN  WithTerm(Ctx("quote", <<push_rigid(rigid_len), flexible_exprs,
                     Sem("apply_closure", <<flexible_exprs, closure,
                                            ValueRigidVar(rigid_len)>>)>>))

\* The loop of quote_telescope, and the truncation after it.
ctx_quote_telescope_loop(rigid_len, flexible_exprs, initial_rigid_len, telescope, terms) ==
    LET Split(s) ==
            IF s.tag = "None" THEN Returned(terms, initial_rigid_len)
            ELSE LET Next(term) ==
                         Ctx("quote_telescope_loop",
                             <<push_rigid(term.rigid), flexible_exprs, initial_rigid_len,
                               next_telescope(s.val.rest, ValueRigidVar(rigid_len)),
                               Append(terms, term.val)>>)
                 IN  Next(Ctx("quote", <<rigid_len, flexible_exprs, s.val.value>>))
    IN  Split(Sem("split_telescope", <<flexible_exprs, telescope>>))

\* QuoteContext::quote_telescope.
ctx_quote_telescope(rigid_len, flexible_exprs, telescope) ==
    Ctx("quote_telescope_loop", <<rigid_len, flexible_exprs, rigid_len, telescope, <<>>>>)

\* QuoteContext::quote.
ctx_quote(rigid_len, flexible_exprs, value0) ==
    LET Forced(value) ==
            CASE value.tag = "Stuck" ->
                    Ctx("quote_spine", <<rigid_len, flexible_exprs,
                        CASE value.head.k = "Prim" -> TermPrim(value.head.prim)
                          [] value.head.k = "RigidVar" ->
                                LET l == global_to_local(rigid_len, value.head.lv)
                                IN  IF l.tag = "Some" THEN TermRigidVar(l.val)
                                    ELSE Panic("InvalidRigidVar")
                          [] value.head.k = "FlexibleVar" -> TermFlexibleVar(value.head.lv),
                        value.spine, 1>>)
              [] value.tag = "FunType" ->
                    LET WithInput(input_type) ==
                            LET WithOutput(output_type) ==
                                    Returned(TermFunTypeOf(value.plicity, input_type.val,
                                                           output_type.val),
                                             output_type.rigid)
                            IN  WithOutput(Ctx("quote_closure",
                                    <<input_type.rigid, flexible_exprs, value.closure>>))
                    IN  WithInput(Ctx("quote", <<rigid_len, flexible_exprs, value.input>>))
              [] value.tag = "FunLit" ->
                    LET WithOutput(output_expr) ==
                            Returned(TermFunLitOf(value.plicity, output_expr.val),
                                     output_expr.rigid)
                    IN  WithOutput(Ctx("quote_closure",
                            <<rigid_len, flexible_exprs, value.closure>>))
              [] value.tag \in {"RecordType", "FormatRecord", "FormatOverlap"} ->
                    LET WithTerms(terms) ==
                            Returned([tag |-> value.tag, labels |-> value.labels,
                                      terms |-> terms.val],
                                     terms.rigid)
                    IN  WithTerms(Ctx("quote_telescope",
                            <<rigid_len, flexible_exprs, value.telescope>>))
              [] value.tag = "RecordLit" ->
                    LET WithExprs(exprs) ==
                            Returned(TermRecordLit(value.labels, exprs.val), exprs.rigid)
                    IN  WithExprs(Ctx("quote_exprs",
                            <<rigid_len, flexible_exprs, value.exprs, 1, <<>>>>))
              [] value.tag = "ArrayLit" ->
                    LET WithExprs(exprs) == Returned(TermArrayLit(exprs.val), exprs.rigid)
                    IN  WithExprs(Ctx("quote_exprs",
                            <<rigid_len, flexible_exprs, value.exprs, 1, <<>>>>))
              [] OTHER -> Returned(Sem("quote", <<rigid_len, flexible_exprs, value>>), rigid_len)
    IN  Forced(Sem("force", <<flexible_exprs, value0>>))

\* The stuck arm's zip of two spines, with the context passed through.
ctx_is_equal_spines(rigid_len, flexible_exprs, spine0, spine1, i) ==
    IF i > Len(spine0) THEN Returned(TRUE, rigid_len)
    ELSE AndThen(
            CASE spine0[i].e = "FunApp" /\ spine1[i].e = "FunApp" ->
                    Ctx("is_equal", <<rigid_len, flexible_exprs, spine0[i].arg, spine1[i].arg>>)
              [] spine0[i].e = "RecordProj" /\ spine1[i].e = "RecordProj" ->
                    Returned(spine0[i].label = spine1[i].label, rigid_len)
              [] spine0[i].e = "ConstMatch" /\ spine1[i].e = "ConstMatch" ->
                    Ctx("is_equal_branches", <<rigid_len, flexible_exprs,
                                               spine0[i].branches, spine1[i].branches>>)
              [] OTHER -> Returned(FALSE, rigid_len),
            "is_equal_spines", <<flexible_exprs, spine0, spine1, i + 1>>)

\* Iterator::zip(exprs0, exprs1).all(is_equal), with the context passed
\* through.
ctx_is_equal_exprs(rigid_len, flexible_exprs, exprs0, exprs1, i) ==
    IF i > Len(exprs0) \/ i > Len(exprs1) THEN Returned(TRUE, rigid_len)
    ELSE AndThen(Ctx("is_equal", <<rigid_len, flexible_exprs, exprs0[i], exprs1[i]>>),
                 "is_equal_exprs", <<flexible_exprs, exprs0, exprs1, i + 1>>)

\* ConversionContext::is_equal_closures: push_rigid, is_equal, pop_rigid.
ctx_is_equal_closures(rigid_len, flexible_exprs, closure0, closure1) ==
    LET WithResult(r) == Returned(r.val, pop_rigid(r.rigid))
    IN  WithResult(Ctx("is_equal", <<push_rigid(rigid_len), flexible_exprs,
            Sem("apply_closure", <<flexible_exprs, closure0, ValueRigidVar(rigid_len)>>),
            Sem("apply_closure", <<flexible_exprs, closure1, ValueRigidVar(rigid_len)>>)>>))

\* A loop of is_equal_telescopes that returns false where it finds two
\* entries unequal, with the variables bound so far still counted.
ctx_is_equal_telescopes_loop_untruncated(rigid_len, flexible_exprs, initial_rigid_len, t0, t1) ==
    LET Split(s0, s1) ==
            IF s0.tag = "None" \/ s1.tag = "None" THEN Returned(TRUE, initial_rigid_len)
            ELSE LET WithResult(r) ==
                         IF ~r.val THEN Returned(FALSE, r.rigid)
                         ELSE Ctx("is_equal_telescopes_loop",
                                  <<push_rigid(r.rigid), flexible_exprs, initial_rigid_len,
                                    next_telescope(s0.val.rest, ValueRigidVar(r.rigid)),
                                    next_telescope(s1.val.rest, ValueRigidVar(r.rigid))>>)
                 IN  WithResult(Ctx("is_equal", <<rigid_len, flexible_exprs,
                                                  s0.val.value, s1.val.value>>))
    IN  Split(Sem("split_telescope", <<flexible_exprs, t0>>),
              Sem("split_telescope", <<flexible_exprs, t1>>))

\* The loop of is_equal_telescopes: the length is truncated to the initial
\* one where two entries are unequal and after the last entry.
ctx_is_equal_telescopes_loop(rigid_len, flexible_exprs, initial_rigid_len, t0, t1) ==
    LET Split(s0, s1) ==
            IF s0.tag = "None" \/ s1.tag = "None" THEN Returned(TRUE, initial_rigid_len)
            ELSE LET WithResult(r) ==
                         IF ~r.val THEN Returned(FALSE, initial_rigid_len)
                         ELSE Ctx("is_equal_telescopes_loop",
                                  <<push_rigid(r.rigid), flexible_exprs, initial_rigid_len,
                                    next_telescope(s0.val.rest, ValueRigidVar(r.rigid)),
                                    next_telescope(s1.val.rest, ValueRigidVar(r.rigid))>>)
                 IN  WithResult(Ctx("is_equal", <<rigid_len, flexible_exprs,
                                                  s0.val.value, s1.val.value>>))
    IN  Split(Sem("split_telescope", <<flexible_exprs, t0>>),
              Sem("split_telescope", <<flexible_exprs, t1>>))

\* ConversionContext::is_equal_telescopes.
ctx_is_equal_telescopes(rigid_len, flexible_exprs, telescope0, telescope1) ==
    IF Len(telescope0.terms) # Len(telescope1.terms) THEN Returned(FALSE, rigid_len)
    ELSE Ctx("is_equal_telescopes_loop",
             <<rigid_len, flexible_exprs, rigid_len, telescope0, telescope1>>)

\* ConversionContext::is_equal_branches.
ctx_is_equal_branches(rigid_len, flexible_exprs, branches0, branches1) ==
    LET Split(s0, s1) ==
            CASE s0.tag = "Branch" /\ s1.tag = "Branch" ->
                    IF ~ConstEq(s0.const, s1.const) THEN Returned(FALSE, rigid_len)
                    ELSE AndThen(Ctx("is_equal", <<rigid_len, flexible_exprs,
                                                   s0.value, s1.value>>),
                                 "is_equal_branches", <<flexible_exprs, s0.rest, s1.rest>>)
              [] s0.tag = "Default" /\ s1.tag = "Default" ->
                    Ctx("is_equal_closures", <<rigid_len, flexible_exprs,
                                               s0.closure, s1.closure>>)
              [] s0.tag = "None" /\ s1.tag = "None" -> Returned(TRUE, rigid_len)
              [] OTHER -> Returned(FALSE, rigid_len)
    IN  Split(Sem("split_branches", <<flexible_exprs, branches0>>),
              Sem("split_branches", <<flexible_exprs, branches1>>))

\* ConversionContext::is_equal_fun_lit: push_rigid, is_equal, pop_rigid.
ctx_is_equal_fun_lit(rigid_len, flexible_exprs, output_expr, value) ==
    LET WithResult(r) == Returned(r.val, pop_rigid(r.rigid))
    IN  WithResult(Ctx("is_equal", <<push_rigid(rigid_len), flexible_exprs,
            Sem("apply_closure", <<flexible_exprs, output_expr, ValueRigidVar(rigid_len)>>),
            Sem("fun_app", <<flexible_exprs, value, ValueRigidVar(rigid_len)>>)>>))

\* ConversionContext::is_equal_record_lit.
ctx_is_equal_record_lit(rigid_len, flexible_exprs, labels, exprs, value, i) ==
    IF i > Len(labels) \/ i > Len(exprs) THEN Returned(TRUE, rigid_len)
    ELSE AndThen(Ctx("is_equal", <<rigid_len, flexible_exprs, exprs[i],
                         Sem("record_proj", <<flexible_exprs, value, labels[i]>>)>>),
                 "is_equal_record_lit", <<flexible_exprs, labels, exprs, value, i + 1>>)

\* ConversionContext::is_equal.
ctx_is_equal(rigid_len, flexible_exprs, v0, v1) ==
    LET Forced(value0, value1) ==
            CASE IsReportedError(value0) \/ IsReportedError(value1) -> Returned(TRUE, rigid_len)
              [] value0.tag = "Stuck" /\ value1.tag = "Stuck" ->
                    IF value0.head = value1.head /\ Len(value0.spine) = Len(value1.spine)
                    THEN Ctx("is_equal_spines", <<rigid_len, flexible_exprs,
                                                  value0.spine, value1.spine, 1>>)
                    ELSE Returned(FALSE, rigid_len)
              [] value0.tag = "FunType" /\ value1.tag = "FunType" ->
                    AndThen(Ctx("is_equal", <<rigid_len, flexible_exprs,
                                              value0.input, value1.input>>),
                            "is_equal_closures", <<flexible_exprs, value0.closure, value1.closure>>)
              [] value0.tag = "FunLit" /\ value1.tag = "FunLit" ->
                    Ctx("is_equal_closures", <<rigid_len, flexible_exprs,
                                               value0.closure, value1.closure>>)
              [] value0.tag = "FunLit" /\ value1.tag # "FunLit" ->
                    Ctx("is_equal_fun_lit", <<rigid_len, flexible_exprs, value0.closure, value1>>)
              [] value0.tag # "FunLit" /\ value1.tag = "FunLit" ->
                    Ctx("is_equal_fun_lit", <<rigid_len, flexible_exprs, value1.closure, value0>>)
              [] /\ value0.tag = value1.tag
                 /\ value0.tag \in {"RecordType", "FormatRecord", "FormatOverlap"} ->
                    IF value0.labels = value1.labels
                    THEN Ctx("is_equal_telescopes", <<rigid_len, flexible_exprs,
                                                      value0.telescope, value1.telescope>>)
                    ELSE Returned(FALSE, rigid_len)
              [] value0.tag = "RecordLit" /\ value1.tag = "RecordLit" ->
                    IF value0.labels = value1.labels
                    THEN Ctx("is_equal_exprs", <<rigid_len, flexible_exprs,
                                                 value0.exprs, value1.exprs, 1>>)
                    ELSE Returned(FALSE, rigid_len)
              [] value0.tag = "RecordLit" /\ value1.tag \notin {"RecordLit", "FunLit"} ->
                    Ctx("is_equal_record_lit", <<rigid_len, flexible_exprs,
                                                 value0.labels, value0.exprs, value1, 1>>)
              [] value1.tag = "RecordLit" /\ value0.tag \notin {"RecordLit", "FunLit"} ->
                    Ctx("is_equal_record_lit", <<rigid_len, flexible_exprs,
                                                 value1.labels, value1.exprs, value0, 1>>)
              [] value0.tag = "ArrayLit" /\ value1.tag = "ArrayLit" ->
                    Ctx("is_equal_exprs", <<rigid_len, flexible_exprs,
                                            value0.exprs, value1.exprs, 1>>)
              [] OTHER -> Returned(Sem("is_equal", <<rigid_len, flexible_exprs, value0, value1>>),
                                   rigid_len)
    IN  Forced(Sem("force", <<flexible_exprs, v0>>), Sem("force", <<flexible_exprs, v1>>))

Ctx(op, a) ==
    CASE op = "eval" -> ctx_eval(a[1], a[2], a[3])
      [] op = "eval_terms" -> ctx_eval_terms(a[1], a[2], a[3], a[4], a[5])
      [] op = "quote" -> ctx_quote(a[1], a[2], a[3])
      [] op = "quote_exprs" -> ctx_quote_exprs(a[1], a[2], a[3], a[4], a[5])
      [] op = "quote_branches" -> ctx_quote_branches(a[1], a[2], a[3], a[4])
      [] op = "quote_spine" -> ctx_quote_spine(a[1], a[2], a[3], a[4], a[5])
      [] op = "quote_closure" -> ctx_quote_closure(a[1], a[2], a[3])
      [] op = "quote_telescope_loop" -> ctx_quote_telescope_loop(a[1], a[2], a[3], a[4], a[5])
      [] op = "quote_telescope" -> ctx_quote_telescope(a[1], a[2], a[3])
      [] op = "is_equal" -> ctx_is_equal(a[1], a[2], a[3], a[4])
      [] op = "is_equal_spines" -> ctx_is_equal_spines(a[1], a[2], a[3], a[4], a[5])
      [] op = "is_equal_exprs" -> ctx_is_equal_exprs(a[1], a[2], a[3], a[4], a[5])
      [] op = "is_equal_closures" -> ctx_is_equal_closures(a[1], a[2], a[3], a[4])
      [] op = "is_equal_telescopes_loop" ->
            ctx_is_equal_telescopes_loop(a[1], a[2], a[3], a[4], a[5])
      [] op = "is_equal_telescopes" -> ctx_is_equal_telescopes(a[1], a[2], a[3], a[4])
      [] op = "is_equal_branches" -> ctx_is_equal_branches(a[1], a[2], a[3], a[4])
      [] op = "is_equal_fun_lit" -> ctx_is_equal_fun_lit(a[1], a[2], a[3], a[4])
      [] op = "is_equal_record_lit" ->
            ctx_is_equal_record_lit(a[1], a[2], a[3], a[4], a[5], a[6])

(***************************************************************************)
(* State.                                                                  *)
(*   rigid_types, rigid_exprs  the local environment: the simple type and  *)
(*                             the value of each binder, oldest first      *)
(*   flexible_sources, flexible_exprs  the metavariable environment: the   *)
(*                             source and the solution slot of each entry  *)
(*   messages                  the diagnostics recorded by push_message    *)
(*   delivered                 the diagnostics handed to on_message        *)
(*   items_left                the items elab_module has yet to elaborate  *)
(*   pc                        where the driver is                         *)
(*   subject                   the term the semantic operations are        *)
(*                             applied to, with its simple type            *)
(*   result                    the outcome of the last operation applied   *)
(***************************************************************************)
VARIABLES rigid_types, rigid_exprs, flexible_sources, flexible_exprs,
          messages, delivered, items_left, pc, subject, result

vars == <<rigid_types, rigid_exprs, flexible_sources, flexible_exprs,
          messages, delivered, items_left, pc, subject, result>>

\* The variables of the module driver, which the semantic operations leave
\* alone.
driver == <<messages, delivered, items_left, pc>>

NoResult == [op |-> "none"]
NoSubject == [ty |-> "none"]

\* The contexts of at most MaxLocals binders.
Contexts == UNION {[1..k -> LocalTypes] : k \in 0..MaxLocals}

\* The value bound to the binder of simple type ty at a level: the rigid
\* variable of that level (LocalEnv::push_param) or, for a definition
\* (LocalEnv::push_def), the value of a fresh metavariable of that type.
LocalExprs(ty, level) ==
    {ValueRigidVar(level)}
    \cup {ValueFlexibleVar(m) : m \in {k \in 0..(MaxMetas - 1) : MetaType(k) = ty}}

TermTypes == {"U8", "Bool", "Fun", "Rec", "Format", "Type"}

\* The metavariables that have a solution.
Solved == {m \in 0..(Len(flexible_exprs) - 1) : flexible_exprs[m + 1].tag = "Some"}

\* The well-typed input terms of a context, with their simple types; the
\* formats go one level deeper, so that a field of a record format can
\* depend on the field before it.
InputTerms(ctx) ==
    UNION {{[term |-> t, ty |-> ty] :
               t \in Gen(ctx, MaxMetas, ty, IF ty = "Format" THEN MaxDepth + 1 ELSE MaxDepth)} :
           ty \in TermTypes}

\* The closed terms a metavariable of simple type ty is unified with.
Solutions(n, ty) ==
    CASE ty = "Type" -> {PrimApp1("FormatRepr", f) : f \in Atoms(<<>>, n, "Format")}
      [] ty = "Fun" -> {TermPrim("U8Not"),
                        TermFunLit(PrimApp2("U8Add", TermRigidVar(0), U8Lit(1, "Decimal")))}
      [] ty = "U8" -> {TermFunApp(f, U8Lit(U8Max, "Hexadecimal")) : f \in Atoms(<<>>, n, "Fun")}
      [] ty = "Format" -> Atoms(<<>>, n, ty) \cup {TermError}
      [] OTHER -> Atoms(<<>>, n, ty)

\* Terms whose value may be headed by ReportedError: the primitive itself,
\* applied, projected, a metavariable that may have it as its solution, and
\* a local definition bound to such a metavariable before it was solved.
ErrorTerms ==
    {TermError, TermFunApp(TermError, U8Lit(1, "Decimal")),
     TermRecordProj(TermError, RecLabels[1])}
    \cup {TermFlexibleVar(m) : m \in {k \in 0..(MaxMetas - 1) : MetaType(k) = "Format"}}
    \cup {TermRigidVar(i) : i \in 0..(MaxLocals - 1)}

\* The value is stuck on the ReportedError primitive.
ErrorHeaded(value) == value.tag = "Stuck" /\ value.head = HeadPrim("ReportedError")

SemInit ==
    /\ rigid_types \in Contexts
    /\ rigid_exprs \in [1..Len(rigid_types) -> UNION {LocalExprs(ty, 0) : ty \in LocalTypes}]
    /\ \A i \in 1..Len(rigid_types) : rigid_exprs[i] \in LocalExprs(rigid_types[i], i - 1)
    /\ flexible_sources = [i \in 1..MaxMetas |-> MetaSource("HoleExpr", i - 1)]
    /\ flexible_exprs = [i \in 1..MaxMetas |-> None]
    /\ messages = <<>>
    /\ delivered = <<>>
    /\ items_left = 0
    /\ pc = "semantics"
    /\ subject \in InputTerms(rigid_types)
    /\ result = NoResult

\* Unification of a metavariable the subject's normal form depends on with
\* a closed term of its type.
Unify(m, t) ==
    /\ result = NoResult
    /\ m \in TermFlexibleVars(Sem("normalise", <<rigid_exprs, flexible_exprs, subject.term>>))
    /\ LET r == Sem("unify", <<Len(rigid_exprs), flexible_exprs,
                      Sem("eval", <<rigid_exprs, flexible_exprs, TermFlexibleVar(m)>>),
                      Sem("eval", <<rigid_exprs, flexible_exprs, t>>)>>)
       IN  /\ r.tag = "Ok"
           /\ flexible_exprs' = r.flexible_exprs
    /\ UNCHANGED <<rigid_types, rigid_exprs, flexible_sources, subject, result>>
    /\ UNCHANGED driver

\* EvalContext::normalise, applied to the subject and then to its own result.
Normalise ==
    /\ result = NoResult
    /\ LET once == Sem("normalise", <<rigid_exprs, flexible_exprs, subject.term>>)
       IN  result' = [op |-> "normalise", once |-> once,
                      twice |-> Sem("normalise", <<rigid_exprs, flexible_exprs, once>>)]
    /\ UNCHANGED <<rigid_types, rigid_exprs, flexible_sources, flexible_exprs, subject>>
    /\ UNCHANGED driver

\* The conversion check on fun x => f x and f, for a subject f of function
\* type that is not a function literal, together with the two quotations.
EtaFun ==
    /\ result = NoResult
    /\ subject.ty = "Fun"
    /\ subject.term.tag # "FunLit"
    /\ LET len == Len(rigid_exprs)
           v == Sem("eval", <<rigid_exprs, flexible_exprs, subject.term>>)
           w == Sem("eval", <<rigid_exprs, flexible_exprs, EtaExpandFun(subject.term, len)>>)
       IN  result' = [op |-> "eta_fun", value |-> v,
                      quote_f |-> Sem("quote", <<len, flexible_exprs, v>>),
                      quote_expanded |-> Sem("quote", <<len, flexible_exprs, w>>),
                      equal |-> Sem("is_equal", <<len, flexible_exprs, w, v>>),
                      equal_rev |-> Sem("is_equal", <<len, flexible_exprs, v, w>>)]
    /\ UNCHANGED <<rigid_types, rigid_exprs, flexible_sources, flexible_exprs, subject>>
    /\ UNCHANGED driver

\* The conversion check on a subject r of the record type { x : U8, y : U8 }
\* and { x = r.x, y = r.y }.
EtaRecord ==
    /\ result = NoResult
    /\ subject.ty = "Rec"
    /\ LET len == Len(rigid_exprs)
           v == Sem("eval", <<rigid_exprs, flexible_exprs, subject.term>>)
           w == Sem("eval", <<rigid_exprs, flexible_exprs, EtaExpandRecord(subject.term, RecLabels)>>)
       IN  result' = [op |-> "eta_record", value |-> v, expanded |-> w,
                      equal |-> Sem("is_equal", <<len, flexible_exprs, v, w>>),
                      equal_rev |-> Sem("is_equal", <<len, flexible_exprs, w, v>>)]
    /\ UNCHANGED <<rigid_types, rigid_exprs, flexible_sources, flexible_exprs, subject>>
    /\ UNCHANGED driver

\* Repr applied to a subject that is a record or overlap format, beside the
\* record type of the Repr of each field.
ReprRecord ==
    /\ result = NoResult
    /\ subject.term.tag \in {"FormatRecord", "FormatOverlap"}
    /\ LET format == subject.term
       IN  result' = [op |-> "repr",
                      repr |-> Sem("normalise", <<rigid_exprs, flexible_exprs,
                                         PrimApp1("FormatRepr", format)>>),
                      fields |-> Sem("normalise", <<rigid_exprs, flexible_exprs,
                                    TermRecordType(format.labels,
                                        [i \in 1..Len(format.terms) |->
                                            PrimApp1("FormatRepr", format.terms[i])])>>)]
    /\ UNCHANGED <<rigid_types, rigid_exprs, flexible_sources, flexible_exprs, subject>>
    /\ UNCHANGED driver

\* ElimContext::force on the value of the subject.
Force ==
    /\ result = NoResult
    /\ LET v == Sem("eval", <<rigid_exprs, flexible_exprs, subject.term>>)
       IN  result' = [op |-> "force", value |-> v, forced |-> Sem("force", <<flexible_exprs, v>>)]
    /\ UNCHANGED <<rigid_types, rigid_exprs, flexible_sources, flexible_exprs, subject>>
    /\ UNCHANGED driver

\* The conversion check on the value of the subject and a value that, once
\* forced, is headed by ReportedError.
ErrorEqual(e) ==
    /\ result = NoResult
    /\ LET len == Len(rigid_exprs)
           v == Sem("eval", <<rigid_exprs, flexible_exprs, subject.term>>)
           w == Sem("eval", <<rigid_exprs, flexible_exprs, e>>)
       IN  /\ ErrorHeaded(Sem("force", <<flexible_exprs, w>>))
           /\ result' = [op |-> "error_equal", value |-> v, error |-> w,
                         equal |-> Sem("is_equal", <<len, flexible_exprs, w, v>>),
                         equal_rev |-> Sem("is_equal", <<len, flexible_exprs, v, w>>)]
    /\ UNCHANGED <<rigid_types, rigid_exprs, flexible_sources, flexible_exprs, subject>>
    /\ UNCHANGED driver

SemNext ==
    \/ \E m \in 0..(Len(flexible_exprs) - 1) :
          \E t \in Solutions(Len(flexible_exprs), MetaType(m)) : Unify(m, t)
    \/ Normalise
    \/ EtaFun
    \/ EtaRecord
    \/ ReprRecord
    \/ Force
    \/ \E e \in ErrorTerms : ErrorEqual(e)

SpecSem == SemInit /\ [][SemNext]_vars

(***************************************************************************)
(* Properties of the semantics, under SpecSem.                             *)
(***************************************************************************)

\* C6 (as first stated): for every f of function type that is not a literal
\* function, quoting the value of fun x => f x yields the same term as
\* quoting the value of f.
EtaFunQuoteEqual ==
    result.op = "eta_fun" => result.quote_expanded = result.quote_f

\* C6: for every f of function type that is not a literal function, the
\* conversion check reports the value of fun x => f x equal to the value of
\* f, in either argument order.
EtaFunConvertible ==
    result.op = "eta_fun" => result.equal /\ result.equal_rev

\* The conversion check has run on a neutral f, whose quotation is not the
\* quotation of its eta-expansion.
EtaFunNeutralChecked ==
    /\ result.op = "eta_fun"
    /\ result.value.tag = "Stuck"
    /\ result.quote_expanded.tag = "FunLit"
    /\ result.quote_f.tag # "FunLit"

\* C7: for every value r of a record type, a neutral r included, the
\* conversion check reports r equal to the record literal that projects each
\* label of the type out of r, in either argument order.
EtaRecordConvertible ==
    result.op = "eta_record" => result.equal /\ result.equal_rev

\* The conversion check has run on a neutral r and its eta-expansion, a
\* record literal.
EtaRecordNeutralChecked ==
    /\ result.op = "eta_record"
    /\ result.value.tag = "Stuck"
    /\ result.expanded.tag = "RecordLit"

\* C8: normalisation is idempotent: normalising the result of normalising a
\* well-scoped term gives exactly the result of normalising it.
NormaliseIdempotent ==
    result.op = "normalise" => result.twice = result.once

\* C9: Repr of a record format or overlap format is the record type with the
\* same labels in the same order whose i-th field type is Repr of the i-th
\* field format, evaluated under the bindings of the earlier fields.
ReprDistributes ==
    result.op = "repr" => result.repr = result.fields

\* Repr has been taken of a format whose second field refers to the first.
ReprDependentChecked ==
    /\ result.op = "repr"
    /\ result.repr.tag = "RecordType"
    /\ result.repr.labels = RecLabels
    /\ TermRigidVar(0) \in TermLeaves(subject.term.terms[2])

\* C10: force returns a value that is never stuck on a metavariable that
\* has a solution, and returns its argument as it is when the head is not a
\* metavariable or the metavariable is unsolved.
ForceResolvesSolved ==
    result.op = "force" =>
        /\ ~(IsFlexible(result.forced) /\ result.forced.head.lv \in Solved)
        /\ (~(IsFlexible(result.value) /\ result.value.head.lv \in Solved)
                => result.forced = result.value)

\* force has run on a value stuck on a solved metavariable whose solution is
\* itself stuck on a solved metavariable: the loop takes more than one turn.
ForceChainChecked ==
    /\ result.op = "force"
    /\ IsFlexible(result.value)
    /\ result.value.head.lv \in Solved
    /\ LET solution == flexible_exprs[result.value.head.lv + 1].val
       IN  IsFlexible(solution) /\ solution.head.lv \in Solved

\* C11: the conversion check returns true whenever either argument, after
\* forcing, is headed by ReportedError, whatever the other argument is and
\* whatever spine the error value carries.
ErrorEqualsAnything ==
    result.op = "error_equal" => result.equal /\ result.equal_rev

\* The conversion check has run on a metavariable solved to ReportedError,
\* which only forcing reveals, against a value that is not stuck.
ErrorForcedChecked ==
    /\ result.op = "error_equal"
    /\ result.value.tag \in {"ConstLit", "FunLit", "RecordLit", "FormatRecord"}
    /\ IsFlexible(result.error)

(***************************************************************************)
(* Match elaboration followed by evaluation: SpecMatch.  The scrutinee is  *)
(* the one local parameter, of type Bool or U8; the rows are drawn from    *)
(* the patterns below, and the body of row i is the constant i.            *)
(***************************************************************************)
MaxRows == 4
MaxPatternNumber == 1

ScrutineeTypePrim == [Bool |-> "BoolType", U8 |-> "U8Type"]

Patterns ==
    {PatternName(0), PatternPlaceholder(0)}
    \cup {PatternBooleanLiteral(0, b) : b \in BOOLEAN}
    \cup {PatternNumberLiteral(0, n, style) :
             n \in 0..MaxPatternNumber, style \in {"Decimal", "Hexadecimal"}}

\* The rows of a match: row i has range i and body i.
Equations ==
    UNION {{[i \in 1..k |-> [pattern |-> [ps[i] EXCEPT !.range = i],
                             body |-> U8Lit(i, "Decimal")]] :
               ps \in [1..k -> Patterns]} :
           k \in 0..MaxRows}

\* The constants a scrutinee of a type is evaluated to.
ScrutineeConsts(ty) ==
    IF ty = "Bool" THEN {ConstBool(b) : b \in BOOLEAN}
    ELSE {ConstU8(n, "Decimal") : n \in (0..(MaxPatternNumber + 1)) \cup {U8Max}}

MatchInit ==
    /\ rigid_types \in {<<"Bool">>, <<"U8">>}
    /\ rigid_exprs = <<ValueRigidVar(0)>>
    /\ flexible_sources = <<>>
    /\ flexible_exprs = <<>>
    /\ messages = <<>>
    /\ delivered = <<>>
    /\ items_left = 0
    /\ pc = "match"
    /\ subject \in {[ty |-> "Match", equations |-> e] : e \in Equations}
    /\ result = NoResult

\* Context::check_match on the subject's rows.
ElabMatch ==
    /\ pc = "match"
    /\ result = NoResult
    /\ LET match_info ==
               [range |-> 0,
                scrutinee |-> [expr |-> TermRigidVar(0),
                               type |-> ValuePrim(ScrutineeTypePrim[rigid_types[1]], <<>>)],
                expected_type |-> ValuePrim("U8Type", <<>>)]
           r == check_match(match_info, subject.equations, messages)
       IN  /\ result' = [op |-> "elab_match", term |-> r.term]
           /\ messages' = r.messages
    /\ UNCHANGED <<rigid_types, rigid_exprs, flexible_sources, flexible_exprs,
                   delivered, items_left, pc, subject>>

\* EvalContext::eval of the elaborated match with the scrutinee bound to a
\* constant of its type.
EvalMatch(const) ==
    /\ pc = "match"
    /\ result.op = "elab_match"
    /\ result' = [op |-> "eval_match", term |-> result.term, scrutinee |-> const,
                  value |-> Sem("eval", <<<<ValueConstLit(const)>>, flexible_exprs,
                                          result.term>>)]
    /\ UNCHANGED <<rigid_types, rigid_exprs, flexible_sources, flexible_exprs,
                   messages, delivered, items_left, pc, subject>>

MatchNext ==
    \/ ElabMatch
    \/ \E const \in ScrutineeConsts(rigid_types[1]) : EvalMatch(const)

SpecMatch == MatchInit /\ [][MatchNext]_vars

MessageKinds == {messages[i].kind : i \in 1..Len(messages)}

PatternErrorKinds == {"NumericLiteralNotSupported", "BooleanLiteralNotSupported"}

\* C1 (as first stated): if a match elaborates without emitting
\* NonExhaustiveMatchExpr, then for every constant of the scrutinee's type
\* the match reduces to a value that is not stuck, and evaluation never
\* reaches the missing-default failure.
MatchTotalUnlessNonExhaustive ==
    (result.op = "eval_match" /\ "NonExhaustiveMatchExpr" \notin MessageKinds)
        => result.value.tag \notin {"Stuck", "Panic"}

\* C1: if a match elaborates without emitting NonExhaustiveMatchExpr and
\* without rejecting one of its patterns, then for every constant of the
\* scrutinee's type the match reduces to a value that is not stuck; and
\* whatever was emitted, evaluating the match on a constant never reaches
\* the missing-default failure.
MatchTotalUnlessReported ==
    result.op = "eval_match" =>
        /\ result.value # Panic("MissingConstDefault")
        /\ (MessageKinds \cap ({"NonExhaustiveMatchExpr"} \cup PatternErrorKinds) = {}
                => result.value.tag \notin {"Stuck", "Panic"})

\* An exhaustive match on Bool, elaborated without a diagnostic to a
\* ConstMatch with two branches and no default, has been evaluated.
MatchExhaustiveEvaluated ==
    /\ result.op = "eval_match"
    /\ messages = <<>>
    /\ result.term.tag = "ConstMatch"
    /\ Len(result.term.branches) = 2
    /\ result.term.default = None
    /\ result.value.tag = "ConstLit"

\* C5: every ConstMatch emitted for a match has its branches in strictly
\* increasing constant order, with no two branches on the same constant,
\* whatever the order and the repetitions of the constant patterns.
BranchesStrictlyIncreasing ==
    (result.op \in {"elab_match", "eval_match"} /\ result.term.tag = "ConstMatch") =>
        \A i \in 1..(Len(result.term.branches) - 1) :
            ConstCmp(result.term.branches[i][1], result.term.branches[i + 1][1]) < 0

\* A ConstMatch has been emitted for rows whose constants come in decreasing
\* order and then repeat.
BranchesFromUnorderedRows ==
    /\ result.op = "elab_match"
    /\ result.term.tag = "ConstMatch"
    /\ Len(result.term.branches) = 2
    /\ Len(subject.equations) = 3
    /\ \A i \in 1..3 : subject.equations[i].pattern.tag = "NumberLiteral"
    /\ subject.equations[1].pattern.n > subject.equations[2].pattern.n
    /\ subject.equations[3].pattern.n = subject.equations[1].pattern.n

\* The checked pattern of row i of the match.
RowPattern(i) ==
    check_pattern(subject.equations[i].pattern,
                  ValuePrim(ScrutineeTypePrim[rigid_types[1]], <<>>), <<>>).pattern

\* The rows among the first k whose pattern is a constant.
ConstRows(k) == {i \in 1..k : RowPattern(i).tag = "ConstLit"}

\* The distinct constants of the constant patterns among the first k rows.
RowConsts(k) == {RowPattern(i).const : i \in ConstRows(k)}

\* The rows that hold the first occurrence of their constant.
FirstConstRows ==
    {i \in ConstRows(Len(subject.equations)) :
        \A j \in ConstRows(i - 1) : RowPattern(j).const # RowPattern(i).const}

\* The constants of the first k rows are all the inhabitants of their type,
\* whose number is known.
RowsCover(k) ==
    /\ RowConsts(k) # {}
    /\ \A c \in RowConsts(k) :
          /\ num_inhabitants(c).tag = "Some"
          /\ Cardinality(RowConsts(k)) = num_inhabitants(c).val

\* The messages of a kind that are reported at a row.
ReportedAt(kind, i) ==
    {m \in 1..Len(messages) : messages[m].kind = kind /\ messages[m].range = i}

\* The emitted term is a ConstMatch with one branch per covering constant
\* and no default, and the covering rows are reported neither as
\* unreachable nor as a non-exhaustive match.
EmittedExhaustiveConstMatch ==
    /\ result.term.tag = "ConstMatch"
    /\ Len(result.term.branches) = Cardinality(RowConsts(Len(subject.equations)))
    /\ result.term.default = None
    /\ "NonExhaustiveMatchExpr" \notin MessageKinds
    /\ \A i \in FirstConstRows : ReportedAt("UnreachablePattern", i) = {}

\* C15 (as first stated): when the distinct constant patterns of a match
\* cover every inhabitant of a scrutinee type of known finite cardinality,
\* the emitted ConstMatch has exactly that many branches and no default, and
\* neither NonExhaustiveMatchExpr nor UnreachablePattern is reported for
\* those rows.
CoveringConstantsExhaustive ==
    (result.op = "elab_match" /\ RowsCover(Len(subject.equations)))
        => EmittedExhaustiveConstMatch

\* C15: when the rows of a match up to some row are all constant patterns
\* and their distinct constants cover every inhabitant of a scrutinee type
\* of known finite cardinality, the emitted ConstMatch has exactly that many
\* branches and no default, and neither NonExhaustiveMatchExpr nor
\* UnreachablePattern is reported for the first row of each constant.
LeadingConstantsExhaustive ==
    (/\ result.op = "elab_match"
     /\ \E k \in 1..Len(subject.equations) : ConstRows(k) = 1..k /\ RowsCover(k))
        => EmittedExhaustiveConstMatch

\* A match on Bool whose rows are false, false again and true has been
\* elaborated to a ConstMatch with two branches and no default, the repeated
\* row alone being reported.
ExhaustiveWithRepeatedRow ==
    /\ result.op = "elab_match"
    /\ Len(subject.equations) = 3
    /\ ConstRows(3) = 1..3
    /\ RowPattern(1).const = ConstBool(FALSE)
    /\ RowPattern(2).const = ConstBool(FALSE)
    /\ RowPattern(3).const = ConstBool(TRUE)
    /\ result.term.tag = "ConstMatch"
    /\ Len(result.term.branches) = 2
    /\ result.term.default = None
    /\ messages = <<MessageUnreachablePattern(2)>>

\* The rows whose pattern is a binder or a placeholder.
CatchAllRows ==
    {i \in 1..Len(subject.equations) : RowPattern(i).tag \in {"Binder", "Placeholder"}}

\* The row bodies that the emitted term holds as a branch, as a default or
\* as the body of the match.
EmittedBodies ==
    CASE result.term.tag = "ConstMatch" ->
            {result.term.branches[i][2] : i \in 1..Len(result.term.branches)}
            \cup (IF result.term.default = None THEN {} ELSE {result.term.default.val})
      [] result.term.tag = "Let" -> {result.term.body}
      [] OTHER -> {result.term}

\* C16: in a match, a binder or placeholder row subsumes all later rows:
\* every later row with a well-formed pattern is reported with exactly one
\* UnreachablePattern, and none of the later rows contributes a branch or a
\* default to the emitted term.
CatchAllSubsumesLaterRows ==
    result.op = "elab_match" =>
        \A b \in CatchAllRows : \A j \in (b + 1)..Len(subject.equations) :
            /\ RowPattern(j).tag # "ReportedError"
                  => Cardinality(ReportedAt("UnreachablePattern", j)) = 1
            /\ subject.equations[j].body \notin EmittedBodies

(***************************************************************************)
(* The module driver: Spec.                                                *)
(***************************************************************************)

\* The metavariables pushed so far whose source is of one of the kinds.
MetasOfKinds(kinds) ==
    {m \in 0..(Len(flexible_sources) - 1) : flexible_sources[m + 1].kind \in kinds}

\* The types an elaboration step finds: the local definitions, the
\* metavariables that stand for types, U8, and Array8 n U8 for a length n
\* that is a metavariable.
FoundTypes ==
    {TermRigidVar(i) : i \in 0..(Len(rigid_exprs) - 1)}
    \cup {TermFlexibleVar(m) : m \in MetasOfKinds(TypeMetaKinds)}
    \cup {TermPrim("U8Type")}
    \cup {PrimApp2("Array8Type", TermFlexibleVar(m), TermPrim("U8Type")) :
             m \in MetasOfKinds(ExprMetaKinds)}

\* The types an elaboration step expects.
ExpectedTypes ==
    {TermPrim("U8Type"), PrimApp2("Array8Type", U8Lit(1, "Decimal"), TermPrim("U8Type"))}

\* The sources of the metavariables that are pushed one at a time; the
\* sources PlaceholderPatternType and NamedPatternType are treated by every
\* operation as MatchExprType is.
PushedKinds == {"ImplicitArg", "MatchExprType", "ReportedErrorType"}

\* The universes a coercion of a type goes between.
SessionUniverses == {TermPrim("FormatType"), TermUniverse}

\* The expression under coercion, which coerce wraps or returns unread.
CoercedExpr == TermPrim("Expr")

Init ==
    /\ rigid_types = <<>>
    /\ rigid_exprs = <<>>
    /\ flexible_sources = <<>>
    /\ flexible_exprs = <<>>
    /\ messages = <<>>
    /\ delivered = <<>>
    /\ items_left \in 0..MaxItems
    /\ pc = "items"
    /\ subject = NoSubject
    /\ result = NoResult

\* synth of a hole: push_unsolved_type for the hole's type, then
\* push_unsolved_term for the hole itself.
SynthHole ==
    /\ pc = "items" /\ items_left > 0
    /\ Len(flexible_exprs) + 2 <= MaxMetaEntries
    /\ LET range == Len(flexible_exprs)
           meta_env == MetaEnvPush(MetaEnvPush(
                           [sources |-> flexible_sources, exprs |-> flexible_exprs],
                           MetaSource("HoleType", range)),
                           MetaSource("HoleExpr", range))
       IN  /\ flexible_sources' = meta_env.sources
           /\ flexible_exprs' = meta_env.exprs
    /\ UNCHANGED <<rigid_types, rigid_exprs, messages, delivered, items_left, pc,
                   subject, result>>

\* synth of a placeholder: as for a hole, with the placeholder sources.
SynthPlaceholder ==
    /\ pc = "items" /\ items_left > 0
    /\ Len(flexible_exprs) + 2 <= MaxMetaEntries
    /\ LET range == Len(flexible_exprs)
           meta_env == MetaEnvPush(MetaEnvPush(
                           [sources |-> flexible_sources, exprs |-> flexible_exprs],
                           MetaSource("PlaceholderType", range)),
                           MetaSource("PlaceholderExpr", range))
       IN  /\ flexible_sources' = meta_env.sources
           /\ flexible_exprs' = meta_env.exprs
    /\ UNCHANGED <<rigid_types, rigid_exprs, messages, delivered, items_left, pc,
                   subject, result>>

\* Context::push_unsolved_term for one metavariable of another source.
PushUnsolvedTerm(kind) ==
    /\ pc = "items" /\ items_left > 0
    /\ Len(flexible_exprs) + 1 <= MaxMetaEntries
    /\ LET meta_env == MetaEnvPush([sources |-> flexible_sources, exprs |-> flexible_exprs],
                                   MetaSource(kind, Len(flexible_exprs)))
       IN  /\ flexible_sources' = meta_env.sources
           /\ flexible_exprs' = meta_env.exprs
    /\ UNCHANGED <<rigid_types, rigid_exprs, messages, delivered, items_left, pc,
                   subject, result>>

\* LocalEnv::push_def of a definition whose expression is the value of a
\* type metavariable, as that value is when the definition is pushed.
PushDef(type) ==
    /\ pc = "items" /\ items_left > 0
    /\ Len(rigid_exprs) < MaxLocals
    /\ rigid_types' = Append(rigid_types, "Type")
    /\ rigid_exprs' = Append(rigid_exprs, Sem("eval", <<rigid_exprs, flexible_exprs, type>>))
    /\ UNCHANGED <<flexible_sources, flexible_exprs, messages, delivered, items_left, pc,
                   subject, result>>

\* Context::coerce between the values of two types or of two universes.
Coerce(from, to) ==
    /\ pc = "items" /\ items_left > 0
    /\ LET r == coerce(Len(rigid_exprs), flexible_exprs, messages, items_left,
                       SpanRange(items_left), CoercedExpr,
                       Sem("eval", <<rigid_exprs, flexible_exprs, from>>),
                       Sem("eval", <<rigid_exprs, flexible_exprs, to>>))
       IN  /\ Len(r.messages) <= MaxMessages
           /\ flexible_exprs' = r.flexible_exprs
           /\ messages' = r.messages
    /\ UNCHANGED <<rigid_types, rigid_exprs, flexible_sources, delivered, items_left, pc,
                   subject, result>>

\* One turn of elab_module's loop ends: the item is done and the local
\* environment is empty again.
FinishItem ==
    /\ pc = "items" /\ items_left > 0
    /\ items_left' = items_left - 1
    /\ rigid_types' = <<>>
    /\ rigid_exprs' = <<>>
    /\ UNCHANGED <<flexible_sources, flexible_exprs, messages, delivered, pc, subject, result>>

\* The end of elab_module: handle_messages hands the messages to on_message
\* and drains the buffer.
HandleMessages ==
    /\ pc = "items" /\ items_left = 0
    /\ delivered' = delivered \o handle_messages(messages, flexible_exprs, flexible_sources)
    /\ messages' = <<>>
    /\ pc' = "done"
    /\ UNCHANGED <<rigid_types, rigid_exprs, flexible_sources, flexible_exprs, items_left,
                   subject, result>>

Next ==
    \/ SynthHole
    \/ SynthPlaceholder
    \/ \E kind \in PushedKinds : PushUnsolvedTerm(kind)
    \/ \E m \in MetasOfKinds(TypeMetaKinds) : PushDef(TermFlexibleVar(m))
    \/ \E from \in FoundTypes, to \in ExpectedTypes : Coerce(from, to)
    \/ \E from, to \in SessionUniverses : Coerce(from, to)
    \/ FinishItem
    \/ HandleMessages

Spec == Init /\ [][Next]_vars

\* C2: every metavariable entry starts unsolved, and over any sequence of
\* steps its solution slot is written at most once: an entry that holds a
\* solution keeps that solution, and no entry goes away.
MetaSolvedOnce ==
    [][/\ Len(flexible_exprs') >= Len(flexible_exprs)
       /\ \A i \in 1..Len(flexible_exprs') :
             IF i > Len(flexible_exprs)
             THEN flexible_exprs'[i] = None
             ELSE flexible_exprs[i].tag = "Some" => flexible_exprs'[i] = flexible_exprs[i]]_vars

\* A coercion has failed on a local definition that still holds a
\* metavariable which has been solved since the definition was pushed.
MetaSolvedThenRetried ==
    /\ \E i \in 1..Len(rigid_exprs) :
          IsFlexible(rigid_exprs[i]) /\ rigid_exprs[i].head.lv \in Solved
    /\ messages # <<>>

\* The messages of a sequence that elaboration records, which are all but
\* those handle_messages makes for the metavariables.
Recorded(seq) ==
    SelectSeq(seq, LAMBDA m : m.kind \notin {"UnsolvedMetaVar", "HoleSolution"})

\* C3: no diagnostic is delivered until every item has been elaborated; the
\* final handle_messages pass then delivers each recorded message exactly
\* once, in the order of recording and before any other, and leaves the
\* buffer empty.
MessagesDeliveredAtEnd ==
    [][/\ pc' = "items" => delivered' = <<>>
       /\ (pc = "items" /\ pc' = "done") =>
             /\ items_left = 0
             /\ delivered = <<>>
             /\ Len(delivered') >= Len(messages)
             /\ SubSeq(delivered', 1, Len(messages)) = messages
             /\ Recorded(delivered') = messages
             /\ messages' = <<>>]_vars

\* Two different recorded messages have been delivered.
MessagesDelivered ==
    /\ pc = "done"
    /\ Len(delivered) >= 2
    /\ Recorded(<<delivered[1], delivered[2]>>) = <<delivered[1], delivered[2]>>
    /\ delivered[1] # delivered[2]

SuppressedKinds == {"HoleType", "PlaceholderType", "ReportedErrorType"}

\* The number of UnsolvedMetaVar messages delivered for a source.
UnsolvedReports(source) ==
    Cardinality({i \in 1..Len(delivered) : delivered[i] = MessageUnsolvedMetaVar(source)})

\* C4: the final message pass emits exactly one UnsolvedMetaVar for each
\* metavariable that is unsolved and whose source is not a hole type, a
\* placeholder type or a reported-error type, and none for a solved
\* metavariable or a metavariable of those three sources.
UnsolvedMetasReported ==
    pc = "done" =>
        \A m \in 0..(Len(flexible_exprs) - 1) :
            UnsolvedReports(flexible_sources[m + 1]) =
                IF m \notin Solved /\ flexible_sources[m + 1].kind \notin SuppressedKinds
                THEN 1 ELSE 0

\* The final pass has run over a solved metavariable, an unsolved one of a
\* suppressed source and an unsolved one of a reported source.
UnsolvedMetasOfEachSort ==
    /\ pc = "done"
    /\ Solved # {}
    /\ \E m \in MetasOfKinds(SuppressedKinds) : m \notin Solved
    /\ \E m \in MetasOfKinds(ExprMetaKinds \cup TypeMetaKinds) :
          m \notin Solved /\ UnsolvedReports(flexible_sources[m + 1]) = 1

(***************************************************************************)
(* Primitive arithmetic on constants: SpecPrim.  The subject is a          *)
(* primitive with constant arguments; the one operation evaluates the      *)
(* application of the primitive to them.                                   *)
(***************************************************************************)

\* The constants the arithmetic primitives are applied to: the ends of the
\* range and values around zero.
ArithConsts(ty) ==
    CASE ty = "U8" ->
            {ConstU8(n, "Decimal") : n \in {0, 1, 2, S8Max, S8Max + 1, U8Max}}
            \cup {ConstU8(1, "Hexadecimal")}
      [] ty = "S8" -> {ConstS8(n) : n \in {S8Min, -1, 0, 1, 2, S8Max}}
      [] ty = "U16" ->
            {ConstU16(n, "Decimal") : n \in {0, 1, 2, U8Max + 1, S16Max + 1, U16Max}}
      [] ty = "S16" -> {ConstS16(n) : n \in {S16Min, -1, 0, 1, 2, S16Max}}
      [] ty = "Pos" ->
            {ConstPos(w) : w \in {u64_from(0), u64_from(1), u64_from(U16Max),
                                   [i \in 1..PosWords |-> U16Max],
                                   [i \in 1..PosWords |->
                                       IF i = PosWords THEN U16Max - U8Max ELSE U16Max]}}

ArithTypes == {"U8", "S8", "U16", "S16"}

\* The arithmetic primitives with the operation they compute and the types
\* of their arguments.
ArithPrims ==
    {[prim |-> ty \o op, op |-> op, tys |-> <<ty, ty>>] :
        ty \in ArithTypes, op \in {"Add", "Sub", "Mul", "Div"}}
    \cup {[prim |-> ty \o "Neg", op |-> "Neg", tys |-> <<ty>>] : ty \in {"S8", "S16"}}
    \cup {[prim |-> "PosAdd" \o ty, op |-> "PosAdd", tys |-> <<"Pos", ty>>] :
            ty \in {"U8", "U16"}}

\* The argument lists of a primitive.  U16Mul of the two largest values is
\* left out: its exact product is beyond the integers of the checker.
ArithArgs(p) ==
    IF Len(p.tys) = 1 THEN {<<a>> : a \in ArithConsts(p.tys[1])}
    ELSE {<<a, b>> : a \in ArithConsts(p.tys[1]), b \in ArithConsts(p.tys[2])}
         \ (IF p.prim = "U16Mul"
             THEN {<<ConstU16(U16Max, "Decimal"), ConstU16(U16Max, "Decimal")>>}
             ELSE {})

PrimInit ==
    /\ rigid_types = <<>>
    /\ rigid_exprs = <<>>
    /\ flexible_sources = <<>>
    /\ flexible_exprs = <<>>
    /\ messages = <<>>
    /\ delivered = <<>>
    /\ items_left = 0
    /\ pc = "prim"
    /\ \E p \in ArithPrims : \E args \in ArithArgs(p) :
          subject = [ty |-> "PrimApp", prim |-> p.prim, op |-> p.op, tys |-> p.tys,
                     args |-> args]
    /\ result = NoResult

\* The application of a primitive to constants, as a term.
PrimAppTerm(prim, args) ==
    IF Len(args) = 1 THEN PrimApp1(prim, TermConstLit(args[1]))
    ELSE PrimApp2(prim, TermConstLit(args[1]), TermConstLit(args[2]))

\* EvalContext::eval on the application: fun_app on each argument, with
\* prim_step tried once the spine is complete.
ApplyPrim ==
    /\ pc = "prim"
    /\ result = NoResult
    /\ result' = [op |-> "prim",
                  value |-> Sem("eval", <<rigid_exprs, flexible_exprs,
                                          PrimAppTerm(subject.prim, subject.args)>>)]
    /\ UNCHANGED <<rigid_types, rigid_exprs, flexible_sources, flexible_exprs, subject>>
    /\ UNCHANGED driver

PrimNext == ApplyPrim

SpecPrim == PrimInit /\ [][PrimNext]_vars

\* The least and greatest value of an integer type.
IntMin(ty) == CASE ty = "S8" -> S8Min [] ty = "S16" -> S16Min [] OTHER -> 0
IntMax(ty) ==
    CASE ty = "U8" -> U8Max [] ty = "S8" -> S8Max [] ty = "U16" -> U16Max [] ty = "S16" -> S16Max

\* The exact result of an operation on integers.
ExactResult(op, args) ==
    CASE op = "Add" -> args[1].n + args[2].n
      [] op = "Sub" -> args[1].n - args[2].n
      [] op = "Mul" -> args[1].n * args[2].n
      [] op = "Div" -> TruncDiv(args[1].n, args[2].n)
      [] op = "Neg" -> -args[1].n

\* x + y is beyond the largest u64: y exceeds the distance from x to it.
PosSumOverflows(x, y) ==
    LET room == [i \in 1..PosWords |-> U16Max - x[i]]
    IN  \E i \in 1..PosWords : y[i] > room[i] /\ \A j \in 1..(i - 1) : y[j] = room[j]

\* The exact result of the subject does not fit its type, or it divides by
\* zero.
SubjectOverflows ==
    IF subject.op = "PosAdd"
    THEN PosSumOverflows(subject.args[1].n, u64_from(subject.args[2].n))
    ELSE \/ subject.op = "Div" /\ subject.args[2].n = 0
         \/ /\ ~(subject.op = "Div" /\ subject.args[2].n = 0)
            /\ LET r == ExactResult(subject.op, subject.args)
               IN  r < IntMin(subject.tys[1]) \/ r > IntMax(subject.tys[1])

\* C12: an integer add, subtract, multiply, divide or negate, or a Pos plus
\* unsigned-integer addition, applied to constants whose exact result does
\* not fit the width or whose divisor is zero neither reduces to a constant
\* nor fails: it stays the primitive stuck on the same arguments.
OverflowStaysStuck ==
    (result.op = "prim" /\ SubjectOverflows) =>
        result.value = ValueStuck(HeadPrim(subject.prim),
                           [i \in 1..Len(subject.args) |->
                               ElimFunApp(ValueConstLit(subject.args[i]))])

\* The least signed value has been divided by -1: the divisor is not zero
\* and the quotient is one past the greatest value.
SignedDivisionOverflowed ==
    /\ result.op = "prim"
    /\ subject.prim = "S8Div"
    /\ subject.args = <<ConstS8(S8Min), ConstS8(-1)>>
    /\ SubjectOverflows

(***************************************************************************)
(* Coercion: SpecCoerce.  The metavariable environment holds entries with  *)
(* and without a solution; the subject is a pair of types, given as values *)
(* that may be stuck on those metavariables, and the span of the term      *)
(* under coercion.                                                         *)
(***************************************************************************)
MaxCoerceMetas == 2

\* The types a metavariable of the coercion may have as its solution.
CoerceSolutions ==
    {ValuePrim("FormatType", <<>>), ValueUniverse, ValuePrim("U8Type", <<>>)}

\* The types a coercion goes between.
CoerceTypes ==
    CoerceSolutions
    \cup {ValueFlexibleVar(m) : m \in 0..(MaxCoerceMetas - 1)}
    \cup {ValuePrim("FormatType", <<ValueUniverse>>),
          ValuePrim("Array8Type", <<ValueConstLit(ConstU8(1, "Decimal")),
                                    ValuePrim("U8Type", <<>>)>>)}

CoerceInit ==
    /\ rigid_types = <<>>
    /\ rigid_exprs = <<>>
    /\ flexible_sources = [i \in 1..MaxCoerceMetas |-> MetaSource("PlaceholderType", i - 1)]
    /\ flexible_exprs \in [1..MaxCoerceMetas -> {None} \cup {Some(v) : v \in CoerceSolutions}]
    /\ messages = <<>>
    /\ delivered = <<>>
    /\ items_left = 0
    /\ pc = "coerce"
    /\ \E from \in CoerceTypes, to \in CoerceTypes, span \in {SpanRange(1), SpanEmpty} :
          subject = [ty |-> "Coerce", from |-> from, to |-> to, span |-> span]
    /\ result = NoResult

\* Context::coerce on the subject; the solutions of before the call are kept
\* beside the term it returns.
CoerceTerm ==
    /\ pc = "coerce"
    /\ result = NoResult
    /\ LET r == coerce(Len(rigid_exprs), flexible_exprs, messages, 0, subject.span,
                       CoercedExpr, subject.from, subject.to)
       IN  /\ flexible_exprs' = r.flexible_exprs
           /\ messages' = r.messages
           /\ result' = [op |-> "coerce", term |-> r.term, before |-> flexible_exprs]
    /\ UNCHANGED <<rigid_types, rigid_exprs, flexible_sources, delivered, items_left, pc,
                   subject>>

CoerceNext == CoerceTerm

SpecCoerce == CoerceInit /\ [][CoerceNext]_vars

\* The number of FailedToUnify messages in the buffer.
FailedToUnifyCount ==
    Cardinality({i \in 1..Len(messages) : messages[i].kind = "FailedToUnify"})

\* C13: coerce wraps the term in an application of Repr exactly when the
\* forced source type is Format and the forced target type is Type; in every
\* other case it returns the term unchanged if unifying the two types
\* succeeds, and otherwise returns an error term and records exactly one
\* FailedToUnify.
CoerceWrapsFormatOnly ==
    result.op = "coerce" =>
        LET from == Sem("force", <<result.before, subject.from>>)
            to == Sem("force", <<result.before, subject.to>>)
            wrapped == PrimApp1("FormatRepr", CoercedExpr)
        IN  IF from = ValuePrim("FormatType", <<>>) /\ to = ValueUniverse
            THEN result.term = wrapped /\ FailedToUnifyCount = 0
            ELSE IF Sem("unify", <<0, result.before, subject.from, subject.to>>).tag = "Ok"
                 THEN result.term = CoercedExpr /\ FailedToUnifyCount = 0
                 ELSE result.term = TermError /\ FailedToUnifyCount = 1

\* coerce has wrapped a term whose source type is a metavariable solved to
\* Format and whose target type is a metavariable solved to Type.
CoerceForcedAndWrapped ==
    /\ result.op = "coerce"
    /\ IsFlexible(subject.from) /\ IsFlexible(subject.to)
    /\ result.term = PrimApp1("FormatRepr", CoercedExpr)

(***************************************************************************)
(* Implicit insertion: SpecImplicit.  The subject is a synthesized term    *)
(* with the term of its type; the metavariable environment holds entries   *)
(* of before the synthesis, some solved to function types.  The local      *)
(* environment is empty.                                                   *)
(***************************************************************************)

\* Context::push_unsolved_term: the inserted metavariable applied to the
\* local parameters, and the metavariable environment with its entry.
push_unsolved_term(meta_env, rigid_infos, source) ==
    [term |-> TermFlexibleInsertion(Len(meta_env.exprs), rigid_infos),
     meta_env |-> MetaEnvPush(meta_env, source)]

\* An insertion that applies the term to at most one metavariable.
insert_implicit_apps_once(meta_env, rigid_exprs0, rigid_infos, range, term, type) ==
    LET forced == Sem("force", <<meta_env.exprs, type>>)
    IN  IF forced.tag = "FunType" /\ forced.plicity = "Implicit"
        THEN LET pushed == push_unsolved_term(meta_env, rigid_infos,
                                              MetaSource("ImplicitArg", range))
                 arg_value == Sem("eval", <<rigid_exprs0, pushed.meta_env.exprs, pushed.term>>)
             IN  [term |-> TermFunApp(term, pushed.term),
                  type |-> Sem("apply_closure", <<pushed.meta_env.exprs, forced.closure,
                                                  arg_value>>),
                  meta_env |-> pushed.meta_env]
        ELSE [term |-> term, type |-> type, meta_env |-> meta_env]

\* Context::insert_implicit_apps: while the forced type is an implicit
\* function type, the term is applied to a fresh metavariable and the type
\* becomes the body type at the value of that metavariable.
RECURSIVE insert_implicit_apps(_, _, _, _, _, _)
insert_implicit_apps(meta_env, rigid_exprs0, rigid_infos, range, term, type) ==
    LET forced == Sem("force", <<meta_env.exprs, type>>)
    IN  IF forced.tag = "FunType" /\ forced.plicity = "Implicit"
        THEN LET pushed == push_unsolved_term(meta_env, rigid_infos,
                                              MetaSource("ImplicitArg", range))
                 arg_value == Sem("eval", <<rigid_exprs0, pushed.meta_env.exprs, pushed.term>>)
             IN  insert_implicit_apps(pushed.meta_env, rigid_exprs0, rigid_infos, range,
                     TermFunApp(term, pushed.term),
                     Sem("apply_closure", <<pushed.meta_env.exprs, forced.closure, arg_value>>))
        ELSE [term |-> term, type |-> type, meta_env |-> meta_env]

\* Context::synth_and_insert_implicit_apps, from the term and type that
\* synth returned.
synth_and_insert_implicit_apps(meta_env, rigid_exprs0, rigid_infos, range, term, type) ==
    IF term.tag = "FunLit" /\ term.plicity = "Implicit"
    THEN [term |-> term, type |-> type, meta_env |-> meta_env]
    ELSE insert_implicit_apps(meta_env, rigid_exprs0, rigid_infos, range, term, type)

\* {A : Type} -> t and (x : U8) -> t.
ImplicitFun(t) == TermFunTypeOf("Implicit", TermUniverse, t)
ExplicitFun(t) == TermFunType(TermPrim("U8Type"), t)

\* The types of the synthesized terms: with zero, one and two leading
\* implicit parameters, with an explicit parameter first, and with
\* metavariables in the place of the type or of a body type.
SynthTypes ==
    {TermPrim("U8Type"),
     ImplicitFun(TermPrim("U8Type")),
     ImplicitFun(ImplicitFun(TermRigidVar(1))),
     ImplicitFun(ExplicitFun(TermRigidVar(1))),
     ExplicitFun(ImplicitFun(TermPrim("U8Type"))),
     TermFlexibleVar(0), TermFlexibleVar(1),
     ImplicitFun(TermFlexibleVar(0))}

\* The solutions of the two metavariables of before the synthesis.
SynthSolutions ==
    {<<s0, s1>> :
        s0 \in {None, Some(ImplicitFun(TermPrim("U8Type"))), Some(TermPrim("U8Type")),
                Some(TermFlexibleVar(1))},
        s1 \in {None, Some(ImplicitFun(TermPrim("U8Type"))),
                Some(ExplicitFun(TermPrim("U8Type")))}}

\* The number of leading implicit parameters of a type, read off its term
\* through the solutions of the metavariables.
RECURSIVE LeadingImplicits(_, _)
LeadingImplicits(t, solutions) ==
    CASE t.tag = "FunType" /\ t.plicity = "Implicit" ->
            1 + LeadingImplicits(t.output, solutions)
      [] t.tag = "FlexibleVar" /\ solutions[t.lv + 1].tag = "Some" ->
            LeadingImplicits(solutions[t.lv + 1].val, solutions)
      [] OTHER -> 0

\* The terms synth returns with a type: an implicit function literal only
\* with a type of implicit functions.
SynthTerms(type, solutions) ==
    {CoercedExpr, TermFunLit(TermRigidVar(0))}
    \cup (IF LeadingImplicits(type, solutions) > 0
          THEN {TermFunLitOf("Implicit", CoercedExpr)}
          ELSE {})

\* The values of the solutions: metavariable 1 first, which the solution
\* of metavariable 0 may mention.
SolutionValues(solutions) ==
    LET e1 == IF solutions[2].tag = "Some"
              THEN Some(Sem("eval", <<<<>>, <<None, None>>, solutions[2].val>>))
              ELSE None
        e0 == IF solutions[1].tag = "Some"
              THEN Some(Sem("eval", <<<<>>, <<None, e1>>, solutions[1].val>>))
              ELSE None
    IN  <<e0, e1>>

ImplicitInit ==
    /\ rigid_types = <<>>
    /\ rigid_exprs = <<>>
    /\ flexible_sources = <<MetaSource("PlaceholderType", 0), MetaSource("PlaceholderType", 1)>>
    /\ messages = <<>>
    /\ delivered = <<>>
    /\ items_left = 0
    /\ pc = "implicit"
    /\ \E solutions \in SynthSolutions : \E type \in SynthTypes :
          \E term \in SynthTerms(type, solutions) :
            /\ flexible_exprs = SolutionValues(solutions)
            /\ subject = [ty |-> "Synth", term |-> term, type |-> type,
                          solutions |-> solutions]
    /\ result = NoResult

\* Context::synth_and_insert_implicit_apps on the subject.
SynthAndInsert ==
    /\ pc = "implicit"
    /\ result = NoResult
    /\ LET r == synth_and_insert_implicit_apps(
                    [sources |-> flexible_sources, exprs |-> flexible_exprs],
                    rigid_exprs, <<>>, 0, subject.term,
                    Sem("eval", <<rigid_exprs, flexible_exprs, subject.type>>))
       IN  /\ flexible_sources' = r.meta_env.sources
           /\ flexible_exprs' = r.meta_env.exprs
           /\ result' = [op |-> "insert", term |-> r.term, type |-> r.type,
                         metas_before |-> Len(flexible_exprs)]
    /\ UNCHANGED <<rigid_types, rigid_exprs, subject>>
    /\ UNCHANGED driver

ImplicitNext == SynthAndInsert

SpecImplicit == ImplicitInit /\ [][ImplicitNext]_vars

\* The term applied to the metavariables from, from + 1, .., from + n - 1,
\* each inserted in the empty local environment.
RECURSIVE AppliedToMetas(_, _, _)
AppliedToMetas(term, from, n) ==
    IF n = 0 THEN term
    ELSE TermFunApp(AppliedToMetas(term, from, n - 1),
                    TermFlexibleInsertion(from + n - 1, <<>>))

IsImplicitFunLit(term) == term.tag = "FunLit" /\ term.plicity = "Implicit"

\* C14: after a term is synthesized with implicit insertion, its type is an
\* implicit function type only if the term is itself an implicit function
\* literal; otherwise the term has been applied to one fresh metavariable
\* for each leading implicit parameter, and the type that is left is not an
\* implicit function type.
ImplicitsInsertedUntilExplicit ==
    result.op = "insert" =>
        LET forced == Sem("force", <<flexible_exprs, result.type>>)
            n == LeadingImplicits(subject.type, subject.solutions)
        IN  IF IsImplicitFunLit(subject.term)
            THEN result.term = subject.term /\ Len(flexible_exprs) = result.metas_before
            ELSE /\ ~(forced.tag = "FunType" /\ forced.plicity = "Implicit")
                 /\ Len(flexible_exprs) = result.metas_before + n
                 /\ result.term = AppliedToMetas(subject.term, result.metas_before, n)
                 /\ \A m \in result.metas_before..(Len(flexible_exprs) - 1) :
                       /\ flexible_exprs[m + 1] = None
                       /\ flexible_sources[m + 1].kind = "ImplicitArg"

\* Two metavariables have been inserted for a type whose second implicit
\* parameter shows only when a solved metavariable is forced.
ImplicitsInsertedThroughMeta ==
    /\ result.op = "insert"
    /\ subject.type = ImplicitFun(TermFlexibleVar(0))
    /\ Len(flexible_exprs) = result.metas_before + 2

(***************************************************************************)
(* The elaboration of a definition with a hole: SpecHole.  The module is   *)
(* the one item  def f : T -> T = fun x => ?h op x;  or the same with the  *)
(* operands exchanged, for an integer type T and an operator op of         *)
(* check_bin_op's table.                                                   *)
(***************************************************************************)

IntTypeNames ==
    [U8Type |-> "U8", U16Type |-> "U16", U32Type |-> "U32", U64Type |-> "U64",
     S8Type |-> "S8", S16Type |-> "S16", S32Type |-> "S32", S64Type |-> "S64"]

BinOps == {"Add", "Sub", "Mul", "Div"}

SurfaceHole(range) == [tag |-> "Hole", range |-> range]
SurfaceName(range, ix) == [tag |-> "Name", range |-> range, ix |-> ix]

\* The arm of synth for a hole: a metavariable for the hole's type, then one
\* for the hole itself.
synth_hole(meta_env, rigid_exprs0, rigid_infos, range) ==
    LET type == push_unsolved_term(meta_env, rigid_infos, MetaSource("HoleType", range))
        expr == push_unsolved_term(type.meta_env, rigid_infos, MetaSource("HoleExpr", range))
    IN  [term |-> expr.term,
         type |-> Sem("eval", <<rigid_exprs0, type.meta_env.exprs, type.term>>),
         meta_env |-> expr.meta_env]

\* A check of an operand that synthesises it and leaves its type alone.
check_operand_unchecked(meta_env, messages0, local_env, surface_term, expected_type) ==
    IF surface_term.tag = "Hole"
    THEN LET synth == synth_hole(meta_env, local_env.exprs, local_env.infos,
                                 surface_term.range)
         IN  [term |-> synth.term, meta_env |-> synth.meta_env, messages |-> messages0]
    ELSE [term |-> TermRigidVar(surface_term.ix), meta_env |-> meta_env,
          messages |-> messages0]

\* The last arm of check, for a hole or a name: the term is synthesised and
\* its type is coerced to the expected type.  local_env is the local
\* environment: the values, the infos and the types of its entries.
check_operand(meta_env, messages0, local_env, surface_term, expected_type) ==
    LET Coerced(synth) ==
            LET Checked(r) ==
                    [term |-> r.term,
                     meta_env |-> [sources |-> synth.meta_env.sources,
                                   exprs |-> r.flexible_exprs],
                     messages |-> r.messages]
            IN  Checked(coerce(Len(local_env.exprs), synth.meta_env.exprs, messages0,
                               surface_term.range, SpanRange(surface_term.range),
                               synth.term, synth.type, expected_type))
    IN  Coerced(IF surface_term.tag = "Hole"
                THEN synth_hole(meta_env, local_env.exprs, local_env.infos,
                                surface_term.range)
                ELSE [term |-> TermRigidVar(surface_term.ix),
                      type |-> local_env.types[Len(local_env.types) - surface_term.ix],
                      meta_env |-> meta_env])

\* Context::check_bin_op, for an expected type and an operator of its
\* table: both operands are checked against the type of the operation.
check_bin_op(meta_env, messages0, local_env, lhs, op, rhs, expected_type) ==
    LET prim == match_prim_spine(expected_type).val.prim
        fun == IntTypeNames[prim] \o op
        op_type == ValuePrim(prim, <<>>)
        WithLhs(lhs_expr) ==
            LET WithRhs(rhs_expr) ==
                    [term |-> PrimApp2(fun, lhs_expr.term, rhs_expr.term),
                     meta_env |-> rhs_expr.meta_env,
                     messages |-> rhs_expr.messages]
            IN  WithRhs(check_operand(lhs_expr.meta_env, lhs_expr.messages, local_env,
                                      rhs, op_type))
    IN  WithLhs(check_operand(meta_env, messages0, local_env, lhs, op_type))

\* Context::check_fun_lit of fun x => lhs op rhs against an explicit
\* function type: the parameter is pushed, the body is checked against the
\* body type at the parameter, and the parameter is popped.
check_fun_lit(meta_env, messages0, lhs, op, rhs, expected_type) ==
    LET arg_expr == ValueRigidVar(0)
        WithType(body_type) ==
            LET WithBody(body_expr) ==
                    [term |-> TermFunLit(body_expr.term),
                     meta_env |-> body_expr.meta_env,
                     messages |-> body_expr.messages]
            IN  WithBody(check_bin_op(meta_env, messages0,
                             [exprs |-> <<arg_expr>>, infos |-> <<"Parameter">>,
                              types |-> <<body_type.input>>],
                             lhs, op, rhs,
                             Sem("apply_closure", <<meta_env.exprs, body_type.closure,
                                                    arg_expr>>)))
    IN  WithType(Sem("force", <<meta_env.exprs, expected_type>>))

\* The definitions elaborated: the type, the operator and the side of the
\* hole.
HoleDefs ==
    {[ty |-> "Def", prim |-> prim, op |-> op, lhs |-> operands[1], rhs |-> operands[2]] :
        prim \in DOMAIN IntTypeNames, op \in BinOps,
        operands \in {<<SurfaceHole(1), SurfaceName(2, 0)>>,
                      <<SurfaceName(1, 0), SurfaceHole(2)>>}}

HoleInit ==
    /\ rigid_types = <<>>
    /\ rigid_exprs = <<>>
    /\ flexible_sources = <<>>
    /\ flexible_exprs = <<>>
    /\ messages = <<>>
    /\ delivered = <<>>
    /\ items_left = 1
    /\ pc = "items"
    /\ subject \in HoleDefs
    /\ result = NoResult

\* The turn of elab_module's loop for the definition: synth_fun_lit checks
\* the annotation, evaluates it and checks the function literal against it.
ElabDef ==
    /\ pc = "items" /\ items_left > 0
    /\ subject.ty = "Def"
    /\ LET type == TermFunType(TermPrim(subject.prim), TermPrim(subject.prim))
       IN  \E r \in {check_fun_lit([sources |-> flexible_sources, exprs |-> flexible_exprs],
                                   messages, subject.lhs, subject.op, subject.rhs,
                                   Sem("eval", <<rigid_exprs, flexible_exprs, type>>))} :
              /\ flexible_sources' = r.meta_env.sources
              /\ flexible_exprs' = r.meta_env.exprs
              /\ messages' = r.messages
              /\ result' = [op |-> "elab_def", expr |-> r.term, type |-> type]
    /\ items_left' = items_left - 1
    /\ UNCHANGED <<rigid_types, rigid_exprs, delivered, pc, subject>>

\* The metavariables of a kind.
HoleMetas(kind) ==
    {m \in 0..(Len(flexible_sources) - 1) : flexible_sources[m + 1].kind = kind}

\* The terms over the parameter x that the hole is unified with.
HoleSolutions == {TermRigidVar(0), PrimApp2("U8Add", TermRigidVar(0), TermRigidVar(0))}

\* The hole is constrained elsewhere: before the final pass, the hole's
\* metavariable is unified under the parameter x with a term over x.
ConstrainHole(t) ==
    /\ pc = "items" /\ items_left = 0
    /\ result.op = "elab_def"
    /\ \E m \in HoleMetas("HoleExpr") :
          /\ flexible_exprs[m + 1] = None
          /\ LET env == <<ValueRigidVar(0)>>
                 r == Sem("unify", <<1, flexible_exprs,
                          Sem("eval", <<env, flexible_exprs,
                                        TermFlexibleInsertion(m, <<"Parameter">>)>>),
                          Sem("eval", <<env, flexible_exprs, t>>)>>)
             IN  /\ r.tag = "Ok"
                 /\ flexible_exprs' = r.flexible_exprs
    /\ UNCHANGED <<rigid_types, rigid_exprs, flexible_sources, messages, delivered,
                   items_left, pc, subject, result>>

HoleNext ==
    \/ ElabDef
    \/ \E t \in HoleSolutions : ConstrainHole(t)
    \/ HandleMessages

SpecHole == HoleInit /\ [][HoleNext]_vars

\* The messages of a kind delivered for a source of a kind.
DeliveredFor(kind, source_kind) ==
    {i \in 1..Len(delivered) :
        \/ kind = "HoleSolution" /\ source_kind = "HoleExpr"
              /\ delivered[i].kind = "HoleSolution"
        \/ kind = "UnsolvedMetaVar" /\ delivered[i].kind = "UnsolvedMetaVar"
              /\ delivered[i].source.kind = source_kind}

\* C17 (as first stated): elaborating the definition produces two
\* diagnostics: HoleSolution if the hole is constrained elsewhere, and
\* otherwise both UnsolvedMetaVar(HoleExpr) and UnsolvedMetaVar(HoleType).
HoleTwoDiagnostics ==
    (pc = "done" /\ subject.ty = "Def") =>
        /\ Len(delivered) = 2
        /\ IF HoleMetas("HoleExpr") \subseteq Solved
           THEN DeliveredFor("HoleSolution", "HoleExpr") # {}
           ELSE /\ DeliveredFor("UnsolvedMetaVar", "HoleExpr") # {}
                /\ DeliveredFor("UnsolvedMetaVar", "HoleType") # {}

\* C17: elaborating the definition solves the metavariable of the hole's
\* type to the operand type and produces exactly one diagnostic:
\* HoleSolution if the hole is constrained elsewhere, and otherwise
\* UnsolvedMetaVar(HoleExpr); UnsolvedMetaVar(HoleType) is never produced.
HoleOneDiagnostic ==
    (pc = "done" /\ subject.ty = "Def") =>
        /\ \A m \in HoleMetas("HoleType") :
              Sem("force", <<flexible_exprs,
                   Sem("eval", <<<<ValueRigidVar(0)>>, flexible_exprs,
                                 TermFlexibleInsertion(m, <<"Parameter">>)>>)>>)
                  = ValuePrim(subject.prim, <<>>)
        /\ Len(delivered) = 1
        /\ DeliveredFor("UnsolvedMetaVar", "HoleType") = {}
        /\ IF HoleMetas("HoleExpr") \subseteq Solved
           THEN DeliveredFor("HoleSolution", "HoleExpr") = {1}
           ELSE DeliveredFor("UnsolvedMetaVar", "HoleExpr") = {1}

\* def f : U32 -> U32 = fun x => ?h + x; has been elaborated and nothing
\* has constrained the hole: UnsolvedMetaVar(HoleExpr) alone is delivered.
HoleLeftUnsolved ==
    /\ pc = "done"
    /\ subject = [ty |-> "Def", prim |-> "U32Type", op |-> "Add",
                  lhs |-> SurfaceHole(1), rhs |-> SurfaceName(2, 0)]
    /\ result.expr = TermFunLit(PrimApp2("U32Add", TermFlexibleInsertion(1, <<"Parameter">>),
                                         TermRigidVar(0)))
    /\ flexible_exprs[2] = None
    /\ delivered = <<MessageUnsolvedMetaVar(MetaSource("HoleExpr", 1))>>

(***************************************************************************)
(* Duplicate field labels: SpecLabels.  report_duplicate_labels is applied *)
(* to a list of fields; a field is its label and the range of that label,  *)
(* which tells the fields of one label apart.                              *)
(***************************************************************************)
MaxFields == 4

FieldLabels == {"x", "y", "z"}

MessageDuplicateFieldLabels(range, labels) ==
    [kind |-> "DuplicateFieldLabels", range |-> range, labels |-> labels]

\* A search that looks at the label pushed last only.
labels_contains_last(labels, label) ==
    labels # <<>> /\ labels[Len(labels)] = label

\* labels.contains(&label).
labels_contains(labels, label) ==
    \E i \in 1..Len(labels) : labels[i] = label

\* The first loop of report_duplicate_labels, from the field at index (from
\* 0): the labels seen for the first time, and the indices and the labels
\* of the fields whose label was seen before.
RECURSIVE duplicate_labels_loop(_, _, _, _, _)
duplicate_labels_loop(fields, index, labels, duplicate_indices, duplicate_labels) ==
    IF index >= Len(fields)
    THEN [labels |-> labels, duplicate_indices |-> duplicate_indices,
          duplicate_labels |-> duplicate_labels]
    ELSE LET field == fields[index + 1]
         IN  IF labels_contains(labels, field.label)
             THEN duplicate_labels_loop(fields, index + 1, labels,
                      Append(duplicate_indices, index),
                      Append(duplicate_labels, <<field.range, field.label>>))
             ELSE duplicate_labels_loop(fields, index + 1, Append(labels, field.label),
                      duplicate_indices, duplicate_labels)

\* Context::report_duplicate_labels: the labels, the fields that are kept,
\* and the message buffer after the call.
report_duplicate_labels(messages0, range, fields) ==
    LET loop == duplicate_labels_loop(fields, 0, <<>>, <<>>, <<>>)
        kept == {i \in 1..Len(fields) :
                    ~\E d \in 1..Len(loop.duplicate_indices) :
                        loop.duplicate_indices[d] = i - 1}
    IN  [labels |-> loop.labels,
         filtered_fields |-> SelectSeq([i \in 1..Len(fields) |->
                                           [field |-> fields[i], keep |-> i \in kept]],
                                       LAMBDA e : e.keep),
         messages |-> IF loop.duplicate_labels # <<>>
                      THEN push_message(messages0,
                               MessageDuplicateFieldLabels(range, loop.duplicate_labels))
                      ELSE messages0]

\* The lists of at most MaxFields fields; the i-th field's label is at
\* range i.
FieldLists ==
    UNION {{[i \in 1..k |-> [label |-> ls[i], range |-> i]] : ls \in [1..k -> FieldLabels]} :
           k \in 0..MaxFields}

LabelsInit ==
    /\ rigid_types = <<>>
    /\ rigid_exprs = <<>>
    /\ flexible_sources = <<>>
    /\ flexible_exprs = <<>>
    /\ messages = <<>>
    /\ delivered = <<>>
    /\ items_left = 0
    /\ pc = "labels"
    /\ subject \in {[ty |-> "Fields", fields |-> fs] : fs \in FieldLists}
    /\ result = NoResult

ReportDuplicateLabels ==
    /\ pc = "labels"
    /\ result = NoResult
    /\ LET r == report_duplicate_labels(messages, 0, subject.fields)
       IN  /\ result' = [op |-> "report_duplicate_labels", labels |-> r.labels,
                         fields |-> [i \in 1..Len(r.filtered_fields) |->
                                        r.filtered_fields[i].field]]
           /\ messages' = r.messages
    /\ UNCHANGED <<rigid_types, rigid_exprs, flexible_sources, flexible_exprs,
                   delivered, items_left, pc, subject>>

LabelsNext == ReportDuplicateLabels

SpecLabels == LabelsInit /\ [][LabelsNext]_vars

\* The indices of the fields whose label no earlier field has.
FirstOccurrences ==
    {i \in 1..Len(subject.fields) :
        \A j \in 1..(i - 1) : subject.fields[j].label # subject.fields[i].label}

\* The fields at the indices of a set, in the order of the list.
FieldsAt(indices) ==
    SelectSeq([i \in 1..Len(subject.fields) |->
                  [field |-> subject.fields[i], keep |-> i \in indices]],
              LAMBDA e : e.keep)

\* C18: for any list of record or format fields, duplicate-label handling
\* yields labels that are pairwise distinct and in first-occurrence order,
\* keeps exactly the first field for each label, and records one
\* DuplicateFieldLabels message if and only if some label repeats.
DuplicateLabelsHandled ==
    result.op = "report_duplicate_labels" =>
        LET firsts == FieldsAt(FirstOccurrences)
        IN  /\ \A i, j \in 1..Len(result.labels) :
                  i # j => result.labels[i] # result.labels[j]
            /\ result.labels = [i \in 1..Len(firsts) |-> firsts[i].field.label]
            /\ result.fields = [i \in 1..Len(firsts) |-> firsts[i].field]
            /\ Len(messages) =
                  IF FirstOccurrences # 1..Len(subject.fields) THEN 1 ELSE 0
            /\ \A m \in 1..Len(messages) : messages[m].kind = "DuplicateFieldLabels"

\* The handling has run on the fields x, y, x, y: the labels are x, y, the
\* first two fields are kept, and one message names the last two.
DuplicateLabelsInterleaved ==
    /\ result.op = "report_duplicate_labels"
    /\ [i \in 1..Len(subject.fields) |-> subject.fields[i].label] = <<"x", "y", "x", "y">>
    /\ result.labels = <<"x", "y">>
    /\ result.fields = SubSeq(subject.fields, 1, 2)
    /\ messages = <<MessageDuplicateFieldLabels(0, <<<<3, "x">>, <<4, "y">>>>)>>

(***************************************************************************)
(* Literals: SpecLiteral.  A string literal is the sequence of the code    *)
(* points of its characters.  check is applied to a literal and an         *)
(* expected type.  The counter of parse_ascii is a u8: adding to it past   *)
(* its maximum panics in a build with overflow checks and wraps in a build *)
(* without them.                                                           *)
(***************************************************************************)
MaxStringLen == 3
CountBits == 8
ByteBits == 8

Builds == {"overflow-checks", "wrapping"}

MessageNonAsciiStringLiteral(invalid_range) ==
    [kind |-> "NonAsciiStringLiteral", range |-> invalid_range]
MessageMismatchedStringLiteralByteLength(range, expected_len, found_len) ==
    [kind |-> "MismatchedStringLiteralByteLength", range |-> range,
     expected_len |-> expected_len, found_len |-> found_len]
MessageStringLiteralNotSupported(range) ==
    [kind |-> "StringLiteralNotSupported", range |-> range]

\* char::is_ascii and char::len_utf8 of a code point.
is_ascii(ch) == ch < 128
len_utf8(ch) == IF ch < 128 THEN 1 ELSE IF ch < 2048 THEN 2 ELSE IF ch < 65536 THEN 3 ELSE 4

\* std::mem::size_of of the integer types of the string arm of check.
size_of ==
    [U8Type |-> 1, U16Type |-> 2, U32Type |-> 4, U64Type |-> 8]

\* The bitwise or of two bytes.
BitOr(a, b) ==
    LET Bit(x, i) == (x \div (2 ^ i)) % 2
        Sum[i \in 0..ByteBits] ==
            IF i = ByteBits THEN 0
            ELSE (IF Bit(a, i) = 1 \/ Bit(b, i) = 1 THEN 2 ^ i ELSE 0) + Sum[i + 1]
    IN  Sum[0]

\* The shift of the character numbered count (from 0) in a type of size
\* bytes.
ascii_offset(size, count) == ByteBits * (size - (count + 1))

\* One turn of the loop of parse_ascii, on the character ch at byte offset:
\* num is None or the number so far, kept as its bytes from the least
\* significant (index 0) up.
parse_ascii_turn(build, size, ch, st) ==
    LET num1 == IF ~is_ascii(ch) THEN None ELSE st.num
        num2 == IF num1 # None /\ st.count < size THEN num1 ELSE None
    IN  IF st.count + 1 >= 2 ^ CountBits /\ build = "overflow-checks"
        THEN [tag |-> "Panic", err |-> "attempt to add with overflow"]
        ELSE [tag |-> "Done",
              num |-> IF num2 = None THEN None
                      ELSE Some([num2.val EXCEPT
                                    ![ascii_offset(size, st.count) \div ByteBits] =
                                        BitOr(@, ch % (2 ^ ByteBits))]),
              count |-> (st.count + 1) % (2 ^ CountBits),
              offset |-> st.offset + len_utf8(ch),
              messages |-> IF ~is_ascii(ch)
                           THEN push_message(st.messages,
                                    MessageNonAsciiStringLiteral(
                                        <<1 + st.offset, 1 + st.offset + len_utf8(ch)>>))
                           ELSE st.messages]

\* The turns of the loop of parse_ascii for the characters i to last.
RECURSIVE parse_ascii_turns(_, _, _, _, _, _)
parse_ascii_turns(build, size, source, i, last, st) ==
    IF st.tag = "Panic" \/ i > last THEN st
    ELSE parse_ascii_turns(build, size, source, i + 1, last,
                           parse_ascii_turn(build, size, source[i], st))

\* The loop of parse_ascii from the i-th character, evaluated a block of
\* turns at a time.
LoopBlock == 2 ^ (CountBits \div 2)
RECURSIVE parse_ascii_loop(_, _, _, _, _)
parse_ascii_loop(build, size, source, i, st) ==
    IF st.tag = "Panic" \/ i > Len(source) THEN st
    ELSE parse_ascii_loop(build, size, source, i + LoopBlock,
             parse_ascii_turns(build, size, source, i,
                 IF i + LoopBlock - 1 < Len(source) THEN i + LoopBlock - 1 ELSE Len(source),
                 st))

\* Const::U8, Const::U16, Const::U32 and Const::U64 of a number given as
\* its bytes.
make_ascii(prim, num) ==
    LET Word(k) == num[2 * k + 1] * (2 ^ ByteBits) + num[2 * k]
    IN  CASE prim = "U8Type" -> ConstU8(num[0], "Ascii")
          [] prim = "U16Type" -> ConstU16(Word(0), "Ascii")
          [] prim = "U32Type" -> ConstU32(Word(1) * (2 ^ U16Bits) + Word(0), "Ascii")
          [] prim = "U64Type" -> ConstU64(<<Word(3), Word(2), Word(1), Word(0)>>, "Ascii")

\* Context::parse_ascii: None or the constant, the message buffer after the
\* call, or the panic of the counter.
parse_ascii(build, messages0, range, source, prim) ==
    LET size == size_of[prim]
        loop == parse_ascii_loop(build, size, source, 1,
                    [tag |-> "Done", num |-> Some([k \in 0..(size - 1) |-> 0]),
                     count |-> 0, offset |-> 0, messages |-> messages0])
    IN  IF loop.tag = "Panic" THEN loop
        ELSE IF loop.count # size
        THEN [tag |-> "Done", constant |-> None,
              messages |-> push_message(loop.messages,
                  MessageMismatchedStringLiteralByteLength(range, size, loop.count))]
        ELSE [tag |-> "Done",
              constant |-> IF loop.num = None THEN None
                           ELSE Some(make_ascii(prim, loop.num.val)),
              messages |-> loop.messages]

\* The arm of check for a string literal.
check_string_literal(build, messages0, range, source, expected_type) ==
    LET ps == match_prim_spine(expected_type)
        parsed ==
            CASE ps.tag = "Some" /\ ps.val.prim \in DOMAIN size_of /\ ps.val.spine = <<>> ->
                    parse_ascii(build, messages0, range, source, ps.val.prim)
              [] ps.tag = "Some" /\ ps.val.prim = "ReportedError" ->
                    [tag |-> "Done", constant |-> None, messages |-> messages0]
              [] OTHER ->
                    [tag |-> "Done", constant |-> None,
                     messages |-> push_message(messages0,
                                      MessageStringLiteralNotSupported(range))]
    IN  IF parsed.tag = "Panic" THEN parsed
        ELSE [tag |-> "Done",
              term |-> IF parsed.constant = None THEN TermError
                       ELSE TermConstLit(parsed.constant.val),
              messages |-> parsed.messages]

\* A number literal is the sequence of its characters.
MaxDigits == 3

MessageInvalidNumericLiteral(range) == [kind |-> "InvalidNumericLiteral", range |-> range]

\* char::to_digit for the characters of the literals: the digit, or -1.
to_digit(c, radix) ==
    LET value == CASE c = "0" -> 0 [] c = "1" -> 1 [] c = "9" -> 9
                   [] c \in {"f", "F"} -> 15 [] OTHER -> -1
    IN  IF value < radix THEN value ELSE -1

\* The signed integer types, and the least and the greatest integer of a
\* type; the greatest of U32 and U64 is beyond every literal of at most
\* four digits and is left out.
SignedTypes == {"S8Type", "S16Type", "S32Type"}
S32Bits == 32
NumMin(prim) ==
    CASE prim = "S8Type" -> S8Min
      [] prim = "S16Type" -> S16Min
      [] prim = "S32Type" -> -(2 ^ (S32Bits - 2)) - 2 ^ (S32Bits - 2)
      [] OTHER -> 0
NumOverflows(prim, n) ==
    CASE prim = "U8Type" -> n > U8Max
      [] prim = "U16Type" -> n > U16Max
      [] prim = "S8Type" -> n > S8Max
      [] prim = "S16Type" -> n > S16Max
      [] OTHER -> FALSE

\* The loop of from_str_radix over the digits.
RECURSIVE from_digits(_, _, _, _, _, _)
from_digits(prim, is_positive, digits, radix, i, result0) ==
    IF i > Len(digits) THEN [tag |-> "Ok", val |-> result0]
    ELSE LET x == to_digit(digits[i], radix)
             next == IF is_positive THEN result0 * radix + x ELSE result0 * radix - x
         IN  IF x < 0 THEN [tag |-> "Err", err |-> "InvalidDigit"]
             ELSE IF is_positive /\ NumOverflows(prim, next)
             THEN [tag |-> "Err", err |-> "PosOverflow"]
             ELSE IF ~is_positive /\ next < NumMin(prim)
             THEN [tag |-> "Err", err |-> "NegOverflow"]
             ELSE from_digits(prim, is_positive, digits, radix, i + 1, next)

\* T::from_str_radix of the standard library for the integer type of prim:
\* an optional sign, a minus sign for a signed type only, then digits of
\* the radix.
from_str_radix(prim, src, radix) ==
    IF src = <<>> THEN [tag |-> "Err", err |-> "Empty"]
    ELSE IF src[1] \in {"+", "-"} /\ Len(src) = 1 THEN [tag |-> "Err", err |-> "InvalidDigit"]
    ELSE IF src[1] = "+" THEN from_digits(prim, TRUE, Tail(src), radix, 1, 0)
    ELSE IF src[1] = "-" /\ prim \in SignedTypes
         THEN from_digits(prim, FALSE, Tail(src), radix, 1, 0)
    ELSE from_digits(prim, TRUE, src, radix, 1, 0)

\* str::strip_prefix.
strip_prefix(src, prefix) ==
    IF Len(src) >= Len(prefix) /\ SubSeq(src, 1, Len(prefix)) = prefix
    THEN Some(SubSeq(src, Len(prefix) + 1, Len(src)))
    ELSE None

\* The constructors handed to the parsers as make.
make_uint(prim, n, style) ==
    CASE prim = "U8Type" -> ConstU8(n, style)
      [] prim = "U16Type" -> ConstU16(n, style)
      [] prim = "U32Type" -> ConstU32(n, style)
      [] prim = "U64Type" -> ConstU64(u64_from(n), style)
make_int(prim, n) ==
    CASE prim = "S8Type" -> ConstS8(n)
      [] prim = "S16Type" -> ConstS16(n)
      [] prim = "S32Type" -> ConstS32(n)

\* Context::parse_number_radix.
parse_number_radix(messages0, range, src, prim) ==
    LET hex == strip_prefix(src, <<"0", "x">>)
        bin == strip_prefix(src, <<"0", "b">>)
        s == IF hex # None THEN hex.val ELSE IF bin # None THEN bin.val ELSE src
        radix == IF hex # None THEN 16 ELSE IF bin # None THEN 2 ELSE 10
        style == IF hex # None THEN "Hexadecimal" ELSE IF bin # None THEN "Binary"
                 ELSE "Decimal"
        r == from_str_radix(prim, s, radix)
    IN  IF r.tag = "Ok"
        THEN [constant |-> Some(make_uint(prim, r.val, style)), messages |-> messages0]
        ELSE [constant |-> None,
              messages |-> push_message(messages0, MessageInvalidNumericLiteral(range))]

\* Context::parse_number, for a signed integer type: str::parse is
\* from_str_radix in radix 10.
parse_number(messages0, range, src, prim) ==
    LET r == from_str_radix(prim, src, 10)
    IN  IF r.tag = "Ok"
        THEN [constant |-> Some(make_int(prim, r.val)), messages |-> messages0]
        ELSE [constant |-> None,
              messages |-> push_message(messages0, MessageInvalidNumericLiteral(range))]

\* The arm of check for a number literal, for an expected type that is not
\* a float type.
check_number_literal(messages0, range, src, expected_type) ==
    LET ps == match_prim_spine(expected_type)
        parsed ==
            CASE ps.tag = "Some" /\ ps.val.prim \in DOMAIN size_of /\ ps.val.spine = <<>> ->
                    parse_number_radix(messages0, range, src, ps.val.prim)
              [] ps.tag = "Some" /\ ps.val.prim \in SignedTypes /\ ps.val.spine = <<>> ->
                    parse_number(messages0, range, src, ps.val.prim)
              [] ps.tag = "Some" /\ ps.val.prim = "ReportedError" ->
                    [constant |-> None, messages |-> messages0]
              [] OTHER ->
                    [constant |-> None,
                     messages |-> push_message(messages0,
                                      MessageNumericLiteralNotSupported(range))]
    IN  [tag |-> "Done",
         term |-> IF parsed.constant = None THEN TermError
                  ELSE TermConstLit(parsed.constant.val),
         messages |-> parsed.messages]

\* The code points of the string literals: two ASCII characters, the
\* second the greatest, and one that is not ASCII.
StringChars == {65, 127, 233}

\* The lengths of the longer string literals, around the sizes of the types
\* and around the range of the counter.
LongLens == {4, 5, 8, 9, 255, 256, 257, 258, 260, 264}

StringLiterals ==
    UNION {[1..k -> StringChars] : k \in 0..MaxStringLen}
    \cup {[i \in 1..k |-> 65 + (i % 2)] : k \in LongLens}

\* The number literals: an optional sign, an optional prefix, and at most
\* MaxDigits digits.
NumberLiterals ==
    {sign \o prefix \o digits :
        sign \in {<<>>, <<"-">>, <<"+">>},
        prefix \in {<<>>, <<"0", "x">>, <<"0", "b">>},
        digits \in UNION {[1..k -> {"0", "1", "9", "f"}] : k \in 0..MaxDigits}}

\* The expected types: the integer types, a type that supports no literal,
\* and the type of a term already reported.
LiteralTypes ==
    DOMAIN size_of \cup SignedTypes \cup {"BoolType", "ReportedError"}

LiteralInit ==
    /\ rigid_types = <<>>
    /\ rigid_exprs = <<>>
    /\ flexible_sources = <<>>
    /\ flexible_exprs = <<>>
    /\ messages = <<>>
    /\ delivered = <<>>
    /\ items_left = 0
    /\ pc = "literal"
    /\ subject \in
          {[ty |-> "StringLiteral", lit |-> lit, prim |-> prim] :
              lit \in StringLiterals, prim \in LiteralTypes}
          \cup {[ty |-> "NumberLiteral", lit |-> lit, prim |-> prim] :
                   lit \in NumberLiterals, prim \in LiteralTypes}
    /\ result = NoResult

\* Context::check of a string literal, in a build with or without overflow
\* checks.
CheckStringLiteral(build) ==
    /\ pc = "literal"
    /\ result = NoResult
    /\ subject.ty = "StringLiteral"
    /\ LET r == check_string_literal(build, messages, 0, subject.lit,
                                     ValuePrim(subject.prim, <<>>))
       IN  IF r.tag = "Panic"
           THEN /\ result' = [op |-> "check_string_literal", outcome |-> "Panic",
                              term |-> TermError]
                /\ UNCHANGED messages
           ELSE /\ result' = [op |-> "check_string_literal", outcome |-> "Done",
                              term |-> r.term]
                /\ messages' = r.messages
    /\ UNCHANGED <<rigid_types, rigid_exprs, flexible_sources, flexible_exprs,
                   delivered, items_left, pc, subject>>

\* Context::check of a number literal.
CheckNumberLiteral ==
    /\ pc = "literal"
    /\ result = NoResult
    /\ subject.ty = "NumberLiteral"
    /\ LET r == check_number_literal(messages, 0, subject.lit,
                                     ValuePrim(subject.prim, <<>>))
       IN  /\ result' = [op |-> "check_number_literal", outcome |-> "Done", term |-> r.term]
           /\ messages' = r.messages
    /\ UNCHANGED <<rigid_types, rigid_exprs, flexible_sources, flexible_exprs,
                   delivered, items_left, pc, subject>>

LiteralNext ==
    \/ \E build \in Builds : CheckStringLiteral(build)
    \/ CheckNumberLiteral

SpecLiteral == LiteralInit /\ [][LiteralNext]_vars

\* The constant of the characters' byte values packed big-endian in an
\* unsigned type of size bytes.
PackedBigEndian(prim, lit) ==
    LET Pair(i) == lit[i] * (2 ^ ByteBits) + lit[i + 1]
    IN  CASE prim = "U8Type" -> ConstU8(lit[1], "Ascii")
          [] prim = "U16Type" -> ConstU16(Pair(1), "Ascii")
          [] prim = "U32Type" -> ConstU32(Pair(1) * (2 ^ U16Bits) + Pair(3), "Ascii")
          [] prim = "U64Type" -> ConstU64(<<Pair(1), Pair(3), Pair(5), Pair(7)>>, "Ascii")

\* C19: a string literal checked against an unsigned n-bit integer type
\* elaborates to a constant only if it has exactly n/8 characters, all
\* ASCII, and the constant's value is then the characters' byte values
\* packed big-endian; any other length records
\* MismatchedStringLiteralByteLength, any character that is not ASCII
\* records NonAsciiStringLiteral, and in both cases the result is an error
\* term.
StringLiteralPacked ==
    (result.op = "check_string_literal" /\ subject.prim \in DOMAIN size_of) =>
        LET lit == subject.lit
            size == size_of[subject.prim]
            all_ascii == \A i \in 1..Len(lit) : is_ascii(lit[i])
        IN  /\ result.outcome = "Done"
            /\ result.term.tag = "ConstLit" =>
                  /\ Len(lit) = size /\ all_ascii
                  /\ result.term.const = PackedBigEndian(subject.prim, lit)
            /\ Len(lit) # size =>
                  /\ "MismatchedStringLiteralByteLength" \in MessageKinds
                  /\ result.term = TermError
            /\ ~all_ascii =>
                  /\ "NonAsciiStringLiteral" \in MessageKinds
                  /\ result.term = TermError

\* The three forms of a number literal: the prefix, the radix and the
\* display style that goes with it.
LiteralForms ==
    {[prefix |-> <<>>, radix |-> 10, style |-> "Decimal"],
     [prefix |-> <<"0", "x">>, radix |-> 16, style |-> "Hexadecimal"],
     [prefix |-> <<"0", "b">>, radix |-> 2, style |-> "Binary"]}

\* The digits of a literal of a form: what follows the prefix, when that is
\* one digit of the radix at least and nothing else.
FormDigits(lit, form) ==
    LET rest == strip_prefix(lit, form.prefix)
    IN  IF /\ rest # None
           /\ rest.val # <<>>
           /\ \A i \in 1..Len(rest.val) : to_digit(rest.val[i], form.radix) >= 0
        THEN rest
        ELSE None

\* The number that digits write in a radix.
RECURSIVE RadixValue(_, _)
RadixValue(digits, radix) ==
    IF digits = <<>> THEN 0
    ELSE RadixValue(SubSeq(digits, 1, Len(digits) - 1), radix) * radix
         + to_digit(digits[Len(digits)], radix)

\* The constant of an integer type with a value and a display style.
StyledConst(prim, n, style) ==
    IF prim \in SignedTypes
    THEN [make_int(prim, n) EXCEPT !.style = style]
    ELSE make_uint(prim, n, style)

\* C20: a numeric literal checked against any integer type is accepted in
\* decimal (no prefix), hexadecimal (0x prefix) or binary (0b prefix), is
\* parsed in the matching radix, and the resulting constant carries the
\* matching display style; the literal is one whose number the type holds.
NumberLiteralRadixAndStyle ==
    (result.op = "check_number_literal"
        /\ subject.prim \in DOMAIN size_of \cup SignedTypes) =>
        \A form \in LiteralForms :
            LET digits == FormDigits(subject.lit, form)
            IN  (digits # None
                    /\ ~NumOverflows(subject.prim, RadixValue(digits.val, form.radix)))
                => result.term = TermConstLit(StyledConst(subject.prim,
                                     RadixValue(digits.val, form.radix), form.style))

(***************************************************************************)
(* Environments at their bounds: SpecEnv.  One environment is driven       *)
(* through its interface: a UniqueEnv or a SharedEnv, whose entries are    *)
(* numbered in the order of their pushes, or an EnvLen, the length that    *)
(* quotation and conversion track in place of an environment.  The length  *)
(* is a RawVar, a u16: adding to it past its maximum panics in a build     *)
(* with overflow checks and wraps in a build without them.                 *)
(***************************************************************************)
MaxEnvOps == 3

\* UniqueEnv::push: the assertion, then Vec::push.
UniqueEnv_push(entries, entry) ==
    IF Len(entries) < RawVarMax THEN EnvDone(Append(entries, entry))
    ELSE Panic("assertion failed: self.entries.len() < usize::from(u16::MAX)")

\* UniqueEnv::pop: Vec::pop, which leaves an empty vector empty.
UniqueEnv_pop(entries) ==
    EnvDone(IF entries = <<>> THEN <<>> ELSE SubSeq(entries, 1, Len(entries) - 1))

\* EnvLen::push: self.0 += 1 on a u16.
EnvLen_push(build, len) ==
    IF len + 1 > RawVarMax /\ build = "overflow-checks"
    THEN Panic("attempt to add with overflow")
    ELSE EnvDone((len + 1) % (2 ^ RawVarBits))

\* EnvLen::pop: self.0 -= 1 on a u16.
EnvLen_pop(build, len) ==
    IF len - 1 < 0 /\ build = "overflow-checks"
    THEN Panic("attempt to subtract with overflow")
    ELSE EnvDone((len - 1) % (2 ^ RawVarBits))

\* SliceEnv::len / SharedEnv::len: the number of entries as a RawVar.
SliceEnv_len(entries) == Len(entries) % (2 ^ RawVarBits)

EnvKinds == {"UniqueEnv", "SharedEnv", "EnvLen"}

\* The lengths the environment starts at: short ones and the longest one.
EnvLens == {0, 1, 2, RawVarMax}

\* The variables looked up in an environment of a length: those around
\* its two ends.
EnvVars(len) ==
    {v \in {0, 1, 2, len - 1, len, len + 1, RawVarMax} : v >= 0 /\ v <= RawVarMax}

\* The environment under test: its entries, or its length for an EnvLen.
EnvOf(kind, len, entries) == IF kind = "EnvLen" THEN len ELSE entries
EnvLength(kind, env) == IF kind = "EnvLen" THEN env ELSE SliceEnv_len(env)

EnvInit ==
    /\ rigid_types = <<>>
    /\ \E kind \in EnvKinds, len \in EnvLens :
          /\ rigid_exprs = IF kind = "EnvLen" THEN <<>> ELSE [i \in 1..len |-> i - 1]
          /\ subject = [ty |-> "Env", kind |-> kind,
                        len |-> IF kind = "EnvLen" THEN len ELSE 0, pushed |-> len]
    /\ flexible_sources = <<>>
    /\ flexible_exprs = <<>>
    /\ messages = <<>>
    /\ delivered = <<>>
    /\ items_left = MaxEnvOps
    /\ pc = "env"
    /\ result = NoResult

\* The state after an operation on the environment that returned r.
EnvApplied(op, r) ==
    LET before == EnvLength(subject.kind, EnvOf(subject.kind, subject.len, rigid_exprs))
    IN  IF r.tag = "Panic"
        THEN /\ result' = [op |-> op, outcome |-> "Panic", before |-> before,
                           after |-> before]
             /\ pc' = "panicked"
             /\ UNCHANGED <<rigid_exprs, subject>>
        ELSE /\ result' = [op |-> op, outcome |-> "Done", before |-> before,
                           after |-> EnvLength(subject.kind, r.env)]
             /\ rigid_exprs' = IF subject.kind = "EnvLen" THEN rigid_exprs ELSE r.env
             /\ subject' = [subject EXCEPT
                               !.len = IF subject.kind = "EnvLen" THEN r.env ELSE @,
                               !.pushed = IF op = "push" THEN @ + 1 ELSE @]
             /\ UNCHANGED pc

\* push on the environment, in a build with or without overflow checks; the
\* entry pushed is numbered by the pushes made.
EnvPush(build) ==
    /\ pc = "env" /\ items_left > 0
    /\ EnvApplied("push",
          CASE subject.kind = "UniqueEnv" -> UniqueEnv_push(rigid_exprs, subject.pushed)
            [] subject.kind = "SharedEnv" -> SharedEnv_push(rigid_exprs, subject.pushed)
            [] subject.kind = "EnvLen" -> EnvLen_push(build, subject.len))
    /\ items_left' = items_left - 1
    /\ UNCHANGED <<rigid_types, flexible_sources, flexible_exprs, messages, delivered>>

\* pop on the environment, in a build with or without overflow checks.
EnvPop(build) ==
    /\ pc = "env" /\ items_left > 0
    /\ EnvApplied("pop",
          CASE subject.kind = "UniqueEnv" -> UniqueEnv_pop(rigid_exprs)
            [] subject.kind = "SharedEnv" -> SharedEnv_pop(rigid_exprs)
            [] subject.kind = "EnvLen" -> EnvLen_pop(build, subject.len))
    /\ items_left' = items_left - 1
    /\ UNCHANGED <<rigid_types, flexible_sources, flexible_exprs, messages, delivered>>

\* The conversions of a variable at the length of the environment, and
\* for an environment with entries, the lookup of the variable as an index.
EnvLookup(var) ==
    /\ pc = "env" /\ items_left > 0
    /\ LET len == EnvLength(subject.kind, EnvOf(subject.kind, subject.len, rigid_exprs))
       IN  result' = [op |-> "lookup", var |-> var, len |-> len,
                      global |-> local_to_global(len, var),
                      local |-> global_to_local(len, var),
                      entry |-> IF subject.kind = "EnvLen" THEN None
                                ELSE get_local(rigid_exprs, var)]
    /\ items_left' = items_left - 1
    /\ UNCHANGED <<rigid_types, rigid_exprs, flexible_sources, flexible_exprs,
                   messages, delivered, pc, subject>>

EnvNext ==
    \/ \E build \in Builds : EnvPush(build)
    \/ \E build \in Builds : EnvPop(build)
    \/ \E var \in EnvVars(EnvLength(subject.kind,
                                    EnvOf(subject.kind, subject.len, rigid_exprs))) :
          EnvLookup(var)

SpecEnv == EnvInit /\ [][EnvNext]_vars

\* C21: no environment or tracked environment length ever exceeds the 2^16
\* bound: a push that would go beyond it panics rather than wrapping the
\* length, and a pop never takes a length below zero.
EnvLengthBounded ==
    /\ EnvLength(subject.kind, EnvOf(subject.kind, subject.len, rigid_exprs))
          \in 0..RawVarMax
    /\ result.op = "push" =>
          IF result.before < RawVarMax
          THEN result.outcome = "Done" /\ result.after = result.before + 1
          ELSE result.outcome = "Panic"
    /\ result.op = "pop" =>
          \/ result.outcome = "Panic" /\ result.before = 0
          \/ /\ result.outcome = "Done"
             /\ result.after = IF result.before = 0 THEN 0 ELSE result.before - 1

\* The entries of the environment that were pushed after a given entry.
PushedAfter(entry) ==
    {i \in 1..Len(rigid_exprs) : rigid_exprs[i] > entry}

\* C24: for an environment of length n, index-to-level conversion maps
\* index i to level n-1-i and level-to-index conversion maps level l to
\* index n-1-l, so the two conversions are mutually inverse for every
\* variable below n, each returns no result for a variable at or above n,
\* and lookup by index i returns the entry pushed i pushes before the most
\* recent one.
EnvConversionsInverse ==
    result.op = "lookup" =>
        IF result.var < result.len
        THEN /\ result.global = Some(result.len - 1 - result.var)
             /\ result.local = Some(result.len - 1 - result.var)
             /\ global_to_local(result.len, result.global.val) = Some(result.var)
             /\ local_to_global(result.len, result.local.val) = Some(result.var)
             /\ subject.kind # "EnvLen" =>
                   /\ result.entry # None
                   /\ Cardinality(PushedAfter(result.entry.val)) = result.var
        ELSE /\ result.global = None
             /\ result.local = None
             /\ result.entry = None

\* The index 1 was looked up in an environment of two entries, the newer
\* one pushed after a pop: the entry found is the older one, at level 0.
EnvLookupAfterRepush ==
    /\ result.op = "lookup"
    /\ subject.kind \in {"UniqueEnv", "SharedEnv"}
    /\ rigid_exprs = <<0, 2>>
    /\ result.var = 1
    /\ result.global = Some(0)
    /\ result.entry = Some(0)

(***************************************************************************)
(* The driver: SpecDriver.  A Driver is constructed, configured with       *)
(* set_allow_errors, and given commands; a command parses its file,        *)
(* elaborates it and emits the diagnostics of both.  A diagnostic is its   *)
(* severity; the diagnostics written so far are kept in delivered.         *)
(***************************************************************************)
MaxCommands == 2
MaxDiagnostics == 2

\* codespan_reporting's Severity, in its order.
Severities == <<"Help", "Note", "Warning", "Error", "Bug">>

SeverityRank(severity) == CHOOSE i \in 1..Len(Severities) : Severities[i] = severity

\* Status::exit_code.
exit_code(status) == IF status = "Ok" THEN 0 ELSE 1

\* An emit_diagnostic that counts warnings as errors.
emit_diagnostic_strict(driver_state, diagnostic) ==
    [written |-> Append(driver_state.written, diagnostic),
     seen_errors |-> (driver_state.seen_errors
                        \/ SeverityRank(diagnostic) >= SeverityRank("Warning"))]

\* Driver::emit_diagnostic: the diagnostic is written, and seen_errors is
\* set if its severity is Error or above.
emit_diagnostic(driver_state, diagnostic) ==
    [written |-> Append(driver_state.written, diagnostic),
     seen_errors |-> (driver_state.seen_errors
                        \/ SeverityRank(diagnostic) >= SeverityRank("Error"))]

\* Driver::emit_diagnostics, from the i-th diagnostic.
RECURSIVE emit_diagnostics(_, _, _)
emit_diagnostics(driver_state, diagnostics, i) ==
    IF i > Len(diagnostics) THEN driver_state
    ELSE emit_diagnostics(emit_diagnostic(driver_state, diagnostics[i]), diagnostics, i + 1)

\* Driver::elaborate_and_emit_module, given the diagnostics of the parser
\* and the messages drained from the elaboration context: both are
\* emitted, and the status is Error if errors were seen and are not allowed.
elaborate_and_emit_module(allow_errors, driver_state, parse_messages, elab_messages) ==
    LET Emitted(after) ==
            [written |-> after.written,
             seen_errors |-> after.seen_errors,
             status |-> IF after.seen_errors /\ ~allow_errors THEN "Error" ELSE "Ok"]
    IN  Emitted(emit_diagnostics(emit_diagnostics(driver_state, parse_messages, 1),
                                 elab_messages, 1))

\* The diagnostics of one source: at most MaxDiagnostics, of any severity.
DiagnosticLists ==
    UNION {[1..k -> {Severities[i] : i \in 1..Len(Severities)}] : k \in 0..MaxDiagnostics}

\* The diagnostics of the parser: none, or one error.
ParseDiagnostics == {<<>>, <<"Error">>}

\* Driver::new.
DriverInit ==
    /\ rigid_types = <<>>
    /\ rigid_exprs = <<>>
    /\ flexible_sources = <<>>
    /\ flexible_exprs = <<>>
    /\ messages = <<>>
    /\ delivered = <<>>
    /\ items_left = MaxCommands
    /\ pc = "driver"
    /\ subject = [ty |-> "Driver", allow_errors |-> FALSE, seen_errors |-> FALSE]
    /\ result = NoResult

\* Driver::set_allow_errors.
SetAllowErrors(allow_errors) ==
    /\ pc = "driver"
    /\ subject.allow_errors # allow_errors
    /\ subject' = [subject EXCEPT !.allow_errors = allow_errors]
    /\ result' = [op |-> "set_allow_errors"]
    /\ UNCHANGED <<rigid_types, rigid_exprs, flexible_sources, flexible_exprs,
                   messages, delivered, items_left, pc>>

\* Driver::load_source_path of a file that cannot be read: the error is
\* emitted by emit_read_diagnostic and None is returned.
LoadSourceFailed ==
    /\ pc = "driver" /\ items_left > 0
    /\ \E after \in {emit_diagnostic([written |-> delivered,
                                      seen_errors |-> subject.seen_errors], "Error")} :
          /\ delivered' = after.written
          /\ subject' = [subject EXCEPT !.seen_errors = after.seen_errors]
    /\ result' = [op |-> "load_source_path", file_id |-> None]
    /\ items_left' = items_left - 1
    /\ UNCHANGED <<rigid_types, rigid_exprs, flexible_sources, flexible_exprs,
                   messages, pc>>

\* Driver::elaborate_and_emit_module of a file whose parse and elaboration
\* give these diagnostics.
ElaborateAndEmitModule(parse_messages, elab_messages) ==
    /\ pc = "driver" /\ items_left > 0
    /\ \E r \in {elaborate_and_emit_module(subject.allow_errors,
                     [written |-> delivered, seen_errors |-> subject.seen_errors],
                     parse_messages, elab_messages)} :
          /\ delivered' = r.written
          /\ subject' = [subject EXCEPT !.seen_errors = r.seen_errors]
          /\ result' = [op |-> "elaborate_and_emit_module", status |-> r.status,
                        exit_code |-> exit_code(r.status),
                        emitted |-> parse_messages \o elab_messages]
    /\ items_left' = items_left - 1
    /\ UNCHANGED <<rigid_types, rigid_exprs, flexible_sources, flexible_exprs,
                   messages, pc>>

DriverNext ==
    \/ \E allow_errors \in BOOLEAN : SetAllowErrors(allow_errors)
    \/ LoadSourceFailed
    \/ \E parse_messages \in ParseDiagnostics, elab_messages \in DiagnosticLists :
          ElaborateAndEmitModule(parse_messages, elab_messages)

SpecDriver == DriverInit /\ [][DriverNext]_vars

\* The diagnostics of a list whose severity is Error.
ErrorsIn(diagnostics) == {i \in 1..Len(diagnostics) : diagnostics[i] = "Error"}

\* The diagnostics of a list whose severity is Error or above.
FailuresIn(diagnostics) ==
    {i \in 1..Len(diagnostics) : diagnostics[i] \in {"Error", "Bug"}}

\* C22, as first stated: a driver elaboration command returns the failed
\* status (exit code 1) whenever at least one Error-severity diagnostic was
\* emitted during it, and returns success (exit code 0) otherwise.
StatusFailedIffErrorEmitted ==
    result.op = "elaborate_and_emit_module" =>
        IF ErrorsIn(result.emitted) # {}
        THEN result.status = "Error" /\ result.exit_code = 1
        ELSE result.status = "Ok" /\ result.exit_code = 0

\* C22: a driver elaboration command returns the failed status (exit code
\* 1) if errors are not allowed and the driver has emitted, during the
\* command or before it, at least one diagnostic of severity Error or
\* above; it returns success (exit code 0) otherwise.
StatusFailedIffErrorSeenAndNotAllowed ==
    result.op = "elaborate_and_emit_module" =>
        IF FailuresIn(delivered) # {} /\ ~subject.allow_errors
        THEN result.status = "Error" /\ result.exit_code = 1
        ELSE result.status = "Ok" /\ result.exit_code = 0

\* A command whose elaboration gave a warning and an error has returned
\* the failed status, errors not being allowed.
CommandFailedOnError ==
    /\ result.op = "elaborate_and_emit_module"
    /\ result.emitted = <<"Warning", "Error">>
    /\ delivered = <<"Warning", "Error">>
    /\ ~subject.allow_errors
    /\ result.status = "Error"
    /\ result.exit_code = 1

(***************************************************************************)
(* Captured environments: SpecCapture.  A SharedEnv is a handle to a       *)
(* vector that its clones share: the vectors are kept in a store, each     *)
(* with the number of handles to it.  clone adds a handle; push_back_mut   *)
(* and drop_last_mut change the vector of a handle in place when no other  *)
(* handle shares it and a copy of it otherwise.  The evaluator owns one    *)
(* environment (rigid_exprs, a handle); closures, telescopes and branch    *)
(* sets own the clone they captured.  The entries are numbered in the      *)
(* order of their pushes.                                                  *)
(***************************************************************************)
MaxCaptureOps == 5
MaxCaptured == 2

\* #[derive(Clone)] for SharedEnv: one more handle to the vector.
SharedEnv_clone(nodes, env) ==
    [nodes EXCEPT ![env].refs = @ + 1]

\* The end of a SharedEnv's life: one handle fewer.
SharedEnv_drop(nodes, env) ==
    [nodes EXCEPT ![env].refs = @ - 1]

\* The vector a handle may change: its own if unshared, or a copy of it.
make_mut(nodes, env) ==
    IF nodes[env].refs = 1 THEN [nodes |-> nodes, env |-> env]
    ELSE [nodes |-> Append(SharedEnv_drop(nodes, env),
                           [entries |-> nodes[env].entries, refs |-> 1]),
          env |-> Len(nodes) + 1]

\* A push that changes the vector in place whoever shares it.
push_back_shared(nodes, env, entry) ==
    [nodes |-> [nodes EXCEPT ![env].entries = Append(@, entry)], env |-> env]

\* SharedEnv::push: the assertion, then push_back_mut.
push_back_mut(nodes, env, entry) ==
    LET Pushed(own) ==
            [nodes |-> [own.nodes EXCEPT ![own.env].entries = Append(@, entry)],
             env |-> own.env]
    IN  IF Len(nodes[env].entries) < RawVarMax THEN Pushed(make_mut(nodes, env))
        ELSE Panic("assertion failed: self.entries.len() < usize::from(u16::MAX)")

\* SharedEnv::pop: drop_last_mut.
drop_last_mut(nodes, env) ==
    LET Dropped(own) ==
            [nodes |-> [own.nodes EXCEPT
                           ![own.env].entries = SubSeq(@, 1, Len(@) - 1)],
             env |-> own.env]
    IN  IF nodes[env].entries = <<>> THEN [nodes |-> nodes, env |-> env]
        ELSE Dropped(make_mut(nodes, env))

\* Closure::new, Telescope::new and Branches::new of a clone of the
\* environment: what was captured, of which kind, and the entries the
\* environment held then.
Captured(kind, nodes, env) ==
    [kind |-> kind, env |-> env, entries |-> nodes[env].entries]

CaptureKinds == {"Closure", "Telescope", "Branches"}

CaptureInit ==
    /\ rigid_types = <<>>
    /\ rigid_exprs = 1
    /\ flexible_sources = <<>>
    /\ flexible_exprs = <<>>
    /\ messages = <<>>
    /\ delivered = <<>>
    /\ items_left = MaxCaptureOps
    /\ pc = "capture"
    /\ subject = [ty |-> "Store", nodes |-> <<[entries |-> <<>>, refs |-> 1]>>,
                  captured |-> <<>>, pushed |-> 0]
    /\ result = NoResult

\* EvalContext::eval of a let: the definition is pushed on the evaluator's
\* environment (the body is the steps that follow until the pop).
EvalLetPush ==
    /\ pc = "capture" /\ items_left > 0
    /\ \E r \in {push_back_mut(subject.nodes, rigid_exprs, subject.pushed)} :
          /\ rigid_exprs' = r.env
          /\ subject' = [subject EXCEPT !.nodes = r.nodes, !.pushed = @ + 1]
    /\ result' = [op |-> "push"]
    /\ items_left' = items_left - 1
    /\ UNCHANGED <<rigid_types, flexible_sources, flexible_exprs, messages, delivered, pc>>

\* EvalContext::eval of a let, after the body: the definition is popped.
EvalLetPop ==
    /\ pc = "capture" /\ items_left > 0
    /\ \E r \in {drop_last_mut(subject.nodes, rigid_exprs)} :
          /\ rigid_exprs' = r.env
          /\ subject' = [subject EXCEPT !.nodes = r.nodes]
    /\ result' = [op |-> "pop"]
    /\ items_left' = items_left - 1
    /\ UNCHANGED <<rigid_types, flexible_sources, flexible_exprs, messages, delivered, pc>>

\* EvalContext::eval of a function type or literal (a closure), of a record
\* type or format (a telescope) or of a match (a branch set): a clone of
\* the evaluator's environment is captured.
EvalCapture(kind) ==
    /\ pc = "capture" /\ items_left > 0
    /\ Len(subject.captured) < MaxCaptured
    /\ subject' = [subject EXCEPT
                      !.nodes = SharedEnv_clone(@, rigid_exprs),
                      !.captured = Append(@, Captured(kind, subject.nodes, rigid_exprs))]
    /\ result' = [op |-> "capture"]
    /\ items_left' = items_left - 1
    /\ UNCHANGED <<rigid_types, rigid_exprs, flexible_sources, flexible_exprs,
                   messages, delivered, pc>>

\* ElimContext::apply_closure of the c-th captured closure: its environment
\* is cloned, the argument is pushed on the clone, the body is evaluated in
\* it, and the clone is dropped.  The body is a variable (captures is
\* FALSE) or a function literal, which captures the clone.
ApplyClosure(c, captures) ==
    /\ pc = "capture" /\ items_left > 0
    /\ c \in 1..Len(subject.captured)
    /\ subject.captured[c].kind = "Closure"
    /\ captures => Len(subject.captured) < MaxCaptured
    /\ \E r \in {push_back_mut(SharedEnv_clone(subject.nodes, subject.captured[c].env),
                               subject.captured[c].env, subject.pushed)} :
          subject' = [subject EXCEPT
                         !.nodes = IF captures THEN r.nodes
                                   ELSE SharedEnv_drop(r.nodes, r.env),
                         !.captured = IF captures
                                      THEN Append(@, Captured("Closure", r.nodes, r.env))
                                      ELSE @,
                         !.pushed = @ + 1]
    /\ result' = [op |-> "apply_closure", closure |-> c]
    /\ items_left' = items_left - 1
    /\ UNCHANGED <<rigid_types, rigid_exprs, flexible_sources, flexible_exprs,
                   messages, delivered, pc>>

CaptureNext ==
    \/ EvalLetPush
    \/ EvalLetPop
    \/ \E kind \in CaptureKinds : EvalCapture(kind)
    \/ \E c \in 1..MaxCaptured, captures \in BOOLEAN : ApplyClosure(c, captures)

SpecCapture == CaptureInit /\ [][CaptureNext]_vars

\* C23: once a closure, telescope or branch set has captured the local
\* expression environment, no later push or pop on the evaluator's
\* environment and no application of that closure changes the entries the
\* captured environment holds.
CapturedEnvUnchanged ==
    \A c \in 1..Len(subject.captured) :
        subject.nodes[subject.captured[c].env].entries = subject.captured[c].entries

\* A closure that captured an environment of one entry has been applied,
\* after the evaluator popped that entry and pushed another: the evaluator
\* holds the new entry and the closure the old one.
ClosureAppliedAfterRepush ==
    /\ result.op = "apply_closure"
    /\ subject.captured # <<>>
    /\ subject.captured[1].kind = "Closure"
    /\ subject.captured[1].entries = <<0>>
    /\ subject.nodes[subject.captured[1].env].entries = <<0>>
    /\ subject.nodes[rigid_exprs].entries = <<1>>

(***************************************************************************)
(* Inserted metavariables: SpecInsertion.  A local environment is built    *)
(* from parameters and definitions, a metavariable is inserted in it by    *)
(* push_unsolved_term, the metavariable is left unsolved or solved, and    *)
(* the inserted term is evaluated in the environment it was inserted in.   *)
(* subject keeps the infos of the local environment, the inserted term     *)
(* and the body of the solution.                                           *)
(***************************************************************************)
MaxInsertionLocals == 3

\* The values local definitions are bound to: a constant, or a parameter
\* bound before.
DefinitionValues ==
    {ValueConstLit(ConstBool(TRUE))}
    \cup {ValueRigidVar(l) : l \in {i \in 0..(Len(rigid_exprs) - 1) :
                                       subject.infos[i + 1] = "Parameter"}}

\* The local entries tagged Parameter, oldest first.
LocalParams ==
    SelectSeq([i \in 1..Len(rigid_exprs) |->
                  [expr |-> rigid_exprs[i], info |-> subject.infos[i]]],
              LAMBDA e : e.info = "Parameter")

\* The bodies of the solutions of a metavariable inserted under k
\* parameters: a constant, or one of the parameters.
SolutionBodies(k) ==
    {TermConstLit(ConstBool(FALSE))} \cup {TermRigidVar(i) : i \in 0..(k - 1)}

InsertionInit ==
    /\ rigid_types = <<>>
    /\ rigid_exprs = <<>>
    /\ flexible_sources \in {<<>>, <<MetaSource("HoleType", 0)>>}
    /\ flexible_exprs = [i \in 1..Len(flexible_sources) |-> None]
    /\ messages = <<>>
    /\ delivered = <<>>
    /\ items_left = 0
    /\ pc = "locals"
    /\ subject = [ty |-> "Insertion", infos |-> <<>>, term |-> None, body |-> None]
    /\ result = NoResult

\* LocalEnv::push_param: the entry is the rigid variable of its own level.
PushParam ==
    /\ pc = "locals"
    /\ Len(rigid_exprs) < MaxInsertionLocals
    /\ rigid_exprs' = Append(rigid_exprs, ValueRigidVar(Len(rigid_exprs)))
    /\ subject' = [subject EXCEPT !.infos = Append(@, "Parameter")]
    /\ UNCHANGED <<rigid_types, flexible_sources, flexible_exprs, messages, delivered,
                   items_left, pc, result>>

\* LocalEnv::push_def of a definition bound to a value.
PushDefinition(expr) ==
    /\ pc = "locals"
    /\ Len(rigid_exprs) < MaxInsertionLocals
    /\ rigid_exprs' = Append(rigid_exprs, expr)
    /\ subject' = [subject EXCEPT !.infos = Append(@, "Definition")]
    /\ UNCHANGED <<rigid_types, flexible_sources, flexible_exprs, messages, delivered,
                   items_left, pc, result>>

\* Context::push_unsolved_term in the local environment built so far.
InsertMeta ==
    /\ pc = "locals"
    /\ \E r \in {push_unsolved_term([sources |-> flexible_sources, exprs |-> flexible_exprs],
                                    subject.infos,
                                    MetaSource("ImplicitArg", Len(flexible_exprs)))} :
          /\ flexible_sources' = r.meta_env.sources
          /\ flexible_exprs' = r.meta_env.exprs
          /\ subject' = [subject EXCEPT !.term = Some(r.term)]
    /\ pc' = "inserted"
    /\ UNCHANGED <<rigid_types, rigid_exprs, messages, delivered, items_left, result>>

\* Unification solves the inserted metavariable: the solution is the body
\* under one function literal for each parameter of the spine.
SolveInserted(body) ==
    /\ pc = "inserted"
    /\ flexible_exprs[subject.term.val.lv + 1] = None
    /\ flexible_exprs' = set_global(flexible_exprs, subject.term.val.lv,
                            Some(Sem("eval", <<<<>>, flexible_exprs,
                                               FunIntros(Len(LocalParams), body)>>)))
    /\ subject' = [subject EXCEPT !.body = Some(body)]
    /\ UNCHANGED <<rigid_types, rigid_exprs, flexible_sources, messages, delivered,
                   items_left, pc, result>>

\* EvalContext::eval of the inserted term.
EvalInserted ==
    /\ pc = "inserted"
    /\ result' = [op |-> "eval",
                  value |-> Sem("eval", <<rigid_exprs, flexible_exprs, subject.term.val>>)]
    /\ pc' = "evaluated"
    /\ UNCHANGED <<rigid_types, rigid_exprs, flexible_sources, flexible_exprs, messages,
                   delivered, items_left, subject>>

InsertionNext ==
    \/ PushParam
    \/ \E expr \in DefinitionValues : PushDefinition(expr)
    \/ InsertMeta
    \/ \E body \in SolutionBodies(Len(LocalParams)) : SolveInserted(body)
    \/ EvalInserted

SpecInsertion == InsertionInit /\ [][InsertionNext]_vars

\* C25: evaluating an inserted metavariable yields that metavariable (or
\* its solution) applied to exactly the local-environment entries tagged as
\* parameters, in outermost-first order, skipping every entry tagged as a
\* definition; the info vector recorded at insertion has one tag per local
\* entry.
InsertedMetaAppliedToParams ==
    /\ subject.term # None =>
          /\ Len(subject.term.val.infos) = Len(rigid_exprs)
          /\ subject.term.val.infos = subject.infos
    /\ result.op = "eval" =>
          result.value =
              IF subject.body = None
              THEN ValueStuck(HeadFlexibleVar(subject.term.val.lv),
                              [i \in 1..Len(LocalParams) |-> ElimFunApp(LocalParams[i].expr)])
              ELSE IF subject.body.val.tag = "ConstLit"
              THEN ValueConstLit(subject.body.val.const)
              ELSE LocalParams[Len(LocalParams) - subject.body.val.ix].expr

\* A metavariable inserted under a parameter, a definition and a second
\* parameter, and left unsolved, has been evaluated: it is applied to the
\* two parameters, the older one first.
InsertedMetaSkipsDefinition ==
    /\ result.op = "eval"
    /\ subject.infos = <<"Parameter", "Definition", "Parameter">>
    /\ subject.body = None
    /\ result.value.tag = "Stuck"
    /\ result.value.spine = <<ElimFunApp(ValueRigidVar(0)), ElimFunApp(ValueRigidVar(2))>>


(***************************************************************************)
(* SpecFrame: one operation of the evaluation, quotation or conversion     *)
(* context is applied to the subject in its context, and the rigid         *)
(* environment (or its length) the context holds is recorded as it was on  *)
(* entry and as it is on return.                                           *)
(***************************************************************************)
\* The well-typed terms of a context the operations are applied to.
FrameTerms(ctx) ==
    UNION {{[term |-> t, ty |-> ty] : t \in Gen(ctx, MaxMetas, ty, MaxDepth)} : ty \in TermTypes}

FrameInit ==
    /\ rigid_types \in Contexts
    /\ rigid_exprs \in [1..Len(rigid_types) -> UNION {LocalExprs(ty, 0) : ty \in LocalTypes}]
    /\ \A i \in 1..Len(rigid_types) : rigid_exprs[i] \in LocalExprs(rigid_types[i], i - 1)
    /\ flexible_sources = [i \in 1..MaxMetas |-> MetaSource("HoleExpr", i - 1)]
    /\ flexible_exprs = [i \in 1..MaxMetas |-> None]
    /\ messages = <<>>
    /\ delivered = <<>>
    /\ items_left = 0
    /\ pc = "frame"
    /\ subject \in FrameTerms(rigid_types)
    /\ result = NoResult

\* The terms the subject is compared with: those of its type and shape.
ComparedTerms ==
    {t.term : t \in {u \in FrameTerms(rigid_types) :
                        u.ty = subject.ty /\ u.term.tag = subject.term.tag}}

\* EvalContext::eval on the subject.
FrameEval ==
    /\ pc = "frame"
    /\ result = NoResult
    /\ \E r \in {Ctx("eval", <<rigid_exprs, flexible_exprs, subject.term>>)} :
          result' = [op |-> "eval", before |-> rigid_exprs, after |-> r.rigid, val |-> r.val,
                     expected |-> Sem("eval", <<rigid_exprs, flexible_exprs, subject.term>>)]
    /\ UNCHANGED <<rigid_types, rigid_exprs, flexible_sources, flexible_exprs, subject>>
    /\ UNCHANGED driver

\* QuoteContext::quote on the value of the subject.
FrameQuote ==
    /\ pc = "frame"
    /\ result = NoResult
    /\ \E v \in {Sem("eval", <<rigid_exprs, flexible_exprs, subject.term>>)} :
       \E r \in {Ctx("quote", <<Len(rigid_exprs), flexible_exprs, v>>)} :
          result' = [op |-> "quote", before |-> Len(rigid_exprs), after |-> r.rigid,
                     val |-> r.val,
                     expected |-> Sem("quote", <<Len(rigid_exprs), flexible_exprs, v>>)]
    /\ UNCHANGED <<rigid_types, rigid_exprs, flexible_sources, flexible_exprs, subject>>
    /\ UNCHANGED driver

\* ConversionContext::is_equal on the values of the subject and of another
\* term.
FrameIsEqual(other) ==
    /\ pc = "frame"
    /\ result = NoResult
    /\ \E v \in {Sem("eval", <<rigid_exprs, flexible_exprs, subject.term>>)} :
       \E w \in {Sem("eval", <<rigid_exprs, flexible_exprs, other>>)} :
       \E r \in {Ctx("is_equal", <<Len(rigid_exprs), flexible_exprs, v, w>>)} :
          result' = [op |-> "is_equal", other |-> other,
                     before |-> Len(rigid_exprs), after |-> r.rigid, val |-> r.val,
                     expected |-> Sem("is_equal", <<Len(rigid_exprs), flexible_exprs, v, w>>)]
    /\ UNCHANGED <<rigid_types, rigid_exprs, flexible_sources, flexible_exprs, subject>>
    /\ UNCHANGED driver

FrameNext ==
    \/ FrameEval
    \/ FrameQuote
    \/ \E other \in ComparedTerms : FrameIsEqual(other)

SpecFrame == FrameInit /\ [][FrameNext]_vars

\* C26: evaluation, quotation and conversion checking return with the
\* rigid environment, or the length tracked in its place, exactly as it
\* was on entry, whatever binders they went under and whether or not a
\* comparison returned early; their results are those of the same
\* operations computed without a context.
RigidEnvRestored ==
    result.op \in {"eval", "quote", "is_equal"} =>
        /\ result.after = result.before
        /\ result.val = result.expected

\* Two record types or record formats with equal first entries and unequal
\* second entries were compared: the comparison returned false from inside
\* its loop, after one variable was bound.
TelescopesComparedUnequal ==
    /\ result.op = "is_equal"
    /\ subject.term.tag \in {"RecordType", "FormatRecord", "FormatOverlap"}
    /\ result.other.tag = subject.term.tag
    /\ result.other.terms[1] = subject.term.terms[1]
    /\ result.other.terms[2] # subject.term.terms[2]
    /\ result.val = FALSE
    /\ result.after = result.before

(***************************************************************************)
(* SpecArray: the conversion check on the values of two array literals of  *)
(* the type Array U8, whose literals may have any number of elements.      *)
(***************************************************************************)
MaxArrayLen == 2

\* The closed elements of an array literal of type Array U8.
ArrayElems == Atoms(<<>>, MaxMetas, "U8")

ArrayLits == {TermArrayLit(es) : es \in UNION {[1..n -> ArrayElems] : n \in 0..MaxArrayLen}}

ArrayInit ==
    /\ rigid_types = <<>>
    /\ rigid_exprs = <<>>
    /\ flexible_sources = [i \in 1..MaxMetas |-> MetaSource("HoleExpr", i - 1)]
    /\ flexible_exprs = [i \in 1..MaxMetas |-> None]
    /\ messages = <<>>
    /\ delivered = <<>>
    /\ items_left = 0
    /\ pc = "arrays"
    /\ subject \in {[ty |-> "Arrays", left |-> l, right |-> r] : l, r \in ArrayLits}
    /\ result = NoResult

\* ConversionContext::is_equal on the values of the two literals, and on
\* each pair of their elements.
ArrayIsEqual ==
    /\ pc = "arrays"
    /\ result = NoResult
    /\ \E v \in {Sem("eval", <<rigid_exprs, flexible_exprs, subject.left>>)} :
       \E w \in {Sem("eval", <<rigid_exprs, flexible_exprs, subject.right>>)} :
          result' = [op |-> "is_equal_arrays",
                     equal |-> Sem("is_equal", <<Len(rigid_exprs), flexible_exprs, v, w>>),
                     lens |-> <<Len(v.exprs), Len(w.exprs)>>,
                     elems |-> [i \in 1..(IF Len(v.exprs) < Len(w.exprs) THEN Len(v.exprs)
                                          ELSE Len(w.exprs)) |->
                                   Sem("is_equal", <<Len(rigid_exprs), flexible_exprs,
                                                     v.exprs[i], w.exprs[i]>>)]]
    /\ UNCHANGED <<rigid_types, rigid_exprs, flexible_sources, flexible_exprs, subject>>
    /\ UNCHANGED driver

ArrayNext == ArrayIsEqual

SpecArray == ArrayInit /\ [][ArrayNext]_vars

\* C28: two array literals are reported equal only if they have the same
\* number of elements and their elements are pairwise equal.
ArrayLitsEqualOnlyIfSameLength ==
    (result.op = "is_equal_arrays" /\ result.equal) =>
        /\ result.lens[1] = result.lens[2]
        /\ \A i \in 1..Len(result.elems) : result.elems[i]

(***************************************************************************)
(* SpecRepr: Repr of a format is evaluated while metavariables of the      *)
(* format are unsolved, the value is kept (as the type of a binder or the  *)
(* solution of a metavariable is), a metavariable is solved, and the kept  *)
(* value is forced, quoted and compared with the value of the same term    *)
(* computed afresh.                                                        *)
(***************************************************************************)
ReprTerms == {PrimApp1("FormatRepr", f) : f \in Gen(<<>>, MaxMetas, "Format", MaxDepth)}

ReprInit ==
    /\ rigid_types = <<>>
    /\ rigid_exprs = <<>>
    /\ flexible_sources = [i \in 1..MaxMetas |-> MetaSource("HoleExpr", i - 1)]
    /\ flexible_exprs = [i \in 1..MaxMetas |-> None]
    /\ messages = <<>>
    /\ delivered = <<>>
    /\ items_left = 0
    /\ pc = "repr"
    /\ subject \in {[ty |-> "Type", term |-> t, value |-> None] : t \in ReprTerms}
    /\ result = NoResult

\* EvalContext::eval on the subject; the value is kept.
ReprEval ==
    /\ pc = "repr"
    /\ subject.value = None
    /\ subject' = [subject EXCEPT
                      !.value = Some(Sem("eval", <<rigid_exprs, flexible_exprs, subject.term>>))]
    /\ UNCHANGED <<rigid_types, rigid_exprs, flexible_sources, flexible_exprs, result>>
    /\ UNCHANGED driver

\* Unification of a metavariable of the subject with a closed term of its
\* type, after the subject was evaluated.
ReprSolve(m, t) ==
    /\ pc = "repr"
    /\ subject.value # None
    /\ result = NoResult
    /\ m \in TermFlexibleVars(subject.term)
    /\ flexible_exprs[m + 1] = None
    /\ \E r \in {Sem("unify", <<Len(rigid_exprs), flexible_exprs,
                      Sem("eval", <<rigid_exprs, flexible_exprs, TermFlexibleVar(m)>>),
                      Sem("eval", <<rigid_exprs, flexible_exprs, t>>)>>)} :
          /\ r.tag = "Ok"
          /\ flexible_exprs' = r.flexible_exprs
    /\ UNCHANGED <<rigid_types, rigid_exprs, flexible_sources, subject, result>>
    /\ UNCHANGED driver

\* ElimContext::force, QuoteContext::quote and ConversionContext::is_equal
\* on the kept value, beside the value of the subject computed now.
ReprForce ==
    /\ pc = "repr"
    /\ subject.value # None
    /\ result = NoResult
    /\ \E fresh \in {Sem("eval", <<rigid_exprs, flexible_exprs, subject.term>>)} :
          result' = [op |-> "repr_force",
                     solved |-> Solved,
                     forced |-> Sem("force", <<flexible_exprs, subject.value.val>>),
                     fresh |-> Sem("force", <<flexible_exprs, fresh>>),
                     quoted |-> Sem("quote", <<0, flexible_exprs, subject.value.val>>),
                     fresh_quoted |-> Sem("quote", <<0, flexible_exprs, fresh>>),
                     equal |-> Sem("is_equal", <<0, flexible_exprs, subject.value.val, fresh>>)]
    /\ UNCHANGED <<rigid_types, rigid_exprs, flexible_sources, flexible_exprs, subject>>
    /\ UNCHANGED driver

ReprNext ==
    \/ ReprEval
    \/ \E m \in 0..(Len(flexible_exprs) - 1) :
          \E t \in Solutions(Len(flexible_exprs), MetaType(m)) : ReprSolve(m, t)
    \/ ReprForce

SpecRepr == ReprInit /\ [][ReprNext]_vars

\* C27: a value that is Repr applied to a format stuck on an unsolved
\* metavariable is, once the metavariable is solved, forced, quoted and
\* compared as the value of Repr of the solved format computed afresh.
ReprForcedAsFresh ==
    result.op = "repr_force" =>
        /\ result.forced = result.fresh
        /\ result.quoted = result.fresh_quoted
        /\ result.equal

(***************************************************************************)
(* SpecAbs: the absolute-value primitives of the signed integers applied   *)
(* to a constant.  i8::abs and i16::abs overflow on the least value of     *)
(* their width: the build decides whether that panics or wraps.            *)
(***************************************************************************)
\* i8::abs.
i8_abs(build, x) ==
    IF x = S8Min
    THEN (IF build = "overflow-checks" THEN Panic("attempt to negate with overflow")
          ELSE EnvDone(S8Min))
    ELSE EnvDone(IF x < 0 THEN -x ELSE x)

\* i16::abs.
i16_abs(build, x) ==
    IF x = S16Min
    THEN (IF build = "overflow-checks" THEN Panic("attempt to negate with overflow")
          ELSE EnvDone(S16Min))
    ELSE EnvDone(IF x < 0 THEN -x ELSE x)

\* i8::unsigned_abs and i16::unsigned_abs, which cannot overflow.
unsigned_abs(x) == IF x < 0 THEN -x ELSE x

\* The arms of prim_step for S8Abs, S8UAbs, S16Abs and S16UAbs: const_step!
\* on one constant of the signed type.
abs_step(build, prim, spine) ==
    LET Stepped(ty, r) ==
            IF r.tag = "Panic" THEN r
            ELSE Some(ValueConstLit([ty |-> ty, n |-> r.env, style |-> "NoStyle"]))
    IN  CASE prim = "S8Abs" /\ IsConstSpine(spine, <<"S8">>) ->
                Stepped("S8", i8_abs(build, spine[1].arg.const.n))
          [] prim = "S16Abs" /\ IsConstSpine(spine, <<"S16">>) ->
                Stepped("S16", i16_abs(build, spine[1].arg.const.n))
          [] prim = "S8UAbs" /\ IsConstSpine(spine, <<"S8">>) ->
                Some(ValueConstLit(ConstU8(unsigned_abs(spine[1].arg.const.n), "Decimal")))
          [] prim = "S16UAbs" /\ IsConstSpine(spine, <<"S16">>) ->
                Some(ValueConstLit(ConstU16(unsigned_abs(spine[1].arg.const.n), "Decimal")))
          [] OTHER -> None

\* fun_app on a value stuck on one of these primitives: the argument is
\* pushed on the spine and the step is tried; the value stays stuck where
\* the step returns None.
fun_app_abs(build, head_expr, input_expr) ==
    LET WithSpine(spine) ==
            LET WithStep(step) ==
                    CASE step.tag = "Panic" -> step
                      [] step.tag = "Some" -> step.val
                      [] OTHER -> ValueStuck(head_expr.head, spine)
            IN  WithStep(abs_step(build, head_expr.head.prim, spine))
    IN  WithSpine(Append(head_expr.spine, ElimFunApp(input_expr)))

AbsPrims ==
    {[prim |-> "S8Abs", ty |-> "S8"], [prim |-> "S8UAbs", ty |-> "S8"],
     [prim |-> "S16Abs", ty |-> "S16"], [prim |-> "S16UAbs", ty |-> "S16"]}

\* The constants the primitives are applied to: every i8, and the i16 at
\* the ends of the range and around zero.
AbsConsts(ty) ==
    IF ty = "S8" THEN {ConstS8(n) : n \in S8Min..S8Max}
    ELSE {ConstS16(n) : n \in {S16Min, S16Min + 1, -1, 0, 1, S16Max}}

AbsInit ==
    /\ rigid_types = <<>>
    /\ rigid_exprs = <<>>
    /\ flexible_sources = <<>>
    /\ flexible_exprs = <<>>
    /\ messages = <<>>
    /\ delivered = <<>>
    /\ items_left = 0
    /\ pc = "abs"
    /\ \E p \in AbsPrims : \E c \in AbsConsts(p.ty) :
          subject = [ty |-> "AbsApp", prim |-> p.prim, of |-> p.ty, arg |-> c]
    /\ result = NoResult

\* EvalContext::eval on the application of the primitive to the constant.
ApplyAbs(build) ==
    /\ pc = "abs"
    /\ result = NoResult
    /\ result' = [op |-> "abs", build |-> build,
                  value |-> fun_app_abs(build, ValuePrim(subject.prim, <<>>),
                                        ValueConstLit(subject.arg))]
    /\ UNCHANGED <<rigid_types, rigid_exprs, flexible_sources, flexible_exprs, subject>>
    /\ UNCHANGED driver

AbsNext == \E build \in Builds : ApplyAbs(build)

SpecAbs == AbsInit /\ [][AbsNext]_vars

\* C30: a signed absolute-value primitive applied to the least value of
\* its width neither panics nor reduces to a constant: the application
\* stays the primitive stuck on that argument.
AbsOfMinStaysStuck ==
    (/\ result.op = "abs"
     /\ subject.prim \in {"S8Abs", "S16Abs"}
     /\ subject.arg.n = IntMin(subject.of)) =>
        result.value = ValueStuck(HeadPrim(subject.prim),
                                  <<ElimFunApp(ValueConstLit(subject.arg))>>)

(***************************************************************************)
(* SpecPasses: one elaboration context used for a module and then for a    *)
(* term, as read_and_emit_format uses it.  elab_module and elab_format     *)
(* each end with handle_messages; neither clears the metavariable          *)
(* environment.  items_left counts the elaborations still to end.          *)
(***************************************************************************)
MaxPasses == 2
MaxPassMetas == 3

\* The sources of the metavariables pushed: a named hole, the type of a
\* hole, and an implicit argument.
PassKinds == {"HoleExpr", "HoleType", "ImplicitArg"}

PassInit ==
    /\ rigid_types = <<>>
    /\ rigid_exprs = <<>>
    /\ flexible_sources = <<>>
    /\ flexible_exprs = <<>>
    /\ messages = <<>>
    /\ delivered = <<>>
    /\ items_left = MaxPasses
    /\ pc = "passes"
    /\ subject = NoSubject
    /\ result = NoResult

\* Context::push_unsolved_term during an elaboration.
PassPushUnsolvedTerm(kind) ==
    /\ pc = "passes" /\ items_left > 0
    /\ Len(flexible_exprs) < MaxPassMetas
    /\ \E meta_env \in {MetaEnvPush([sources |-> flexible_sources, exprs |-> flexible_exprs],
                                    MetaSource(kind, Len(flexible_exprs)))} :
          /\ flexible_sources' = meta_env.sources
          /\ flexible_exprs' = meta_env.exprs
    /\ UNCHANGED <<rigid_types, rigid_exprs, messages, delivered, items_left, pc,
                   subject, result>>

\* Unification records the solution of a metavariable that has none.
PassSolve(m) ==
    /\ pc = "passes" /\ items_left > 0
    /\ flexible_exprs[m + 1] = None
    /\ flexible_exprs' = set_global(flexible_exprs, m, Some(ValuePrim("U8Type", <<>>)))
    /\ UNCHANGED <<rigid_types, rigid_exprs, flexible_sources, messages, delivered,
                   items_left, pc, subject, result>>

\* Context::push_message during an elaboration.
PassPushMessage ==
    /\ pc = "passes" /\ items_left > 0
    /\ messages = <<>>
    /\ messages' = push_message(messages, MessageMissingSpan(items_left))
    /\ UNCHANGED <<rigid_types, rigid_exprs, flexible_sources, flexible_exprs, delivered,
                   items_left, pc, subject, result>>

\* The end of elab_module, elab_term or elab_format: handle_messages hands
\* the messages to on_message and drains the buffer; the environments are
\* left as they are.
PassHandleMessages ==
    /\ pc = "passes" /\ items_left > 0
    /\ delivered' = delivered \o handle_messages(messages, flexible_exprs, flexible_sources)
    /\ messages' = <<>>
    /\ items_left' = items_left - 1
    /\ UNCHANGED <<rigid_types, rigid_exprs, flexible_sources, flexible_exprs, pc,
                   subject, result>>

PassNext ==
    \/ \E kind \in PassKinds : PassPushUnsolvedTerm(kind)
    \/ \E m \in 0..(Len(flexible_exprs) - 1) : PassSolve(m)
    \/ PassPushMessage
    \/ PassHandleMessages

SpecPasses == PassInit /\ [][PassNext]_vars

\* C29: however many times the final message pass runs on one elaboration
\* context, no UnsolvedMetaVar or HoleSolution diagnostic is delivered
\* more than once for a metavariable.
MetaDiagnosticsDeliveredOnce ==
    \A i, j \in 1..Len(delivered) :
        (i # j /\ delivered[i].kind \in {"UnsolvedMetaVar", "HoleSolution"}) =>
            delivered[i] # delivered[j]

====
